---- MODULE Spec2Model ----
(***************************************************************************)
(* Model of the hybrid RAG router (src/hybrid_rag.py) and of the graph     *)
(* context extractor (src/neo4j_query.py).                                 *)
(*                                                                         *)
(* A text (a Python str) is a sequence of characters; Chars turns a        *)
(* literal into one.  Keyword tests are the substring tests of the source, *)
(* on the lower-cased question.  The collaborators (graph                  *)
(* executor, vector retriever, generator) answer nondeterministically:     *)
(* each call either raises or returns a value drawn from a small set.      *)
(*                                                                         *)
(* Spec is the router serving one request after the other.  SessionSpec is *)
(* the same router with the history of its earlier calls recorded, on a    *)
(* smaller set of questions.  QuerierSpec is Neo4jQuerier called directly: *)
(* the CO2 query evaluated on a graph, and the formatter on a context.     *)
(***************************************************************************)
EXTENDS Integers, Sequences, FiniteSets, TLC

VARIABLES
    question,        \* argument `question` of the call in progress
    force_strategy,  \* argument `force_strategy` of query(): <<>> is None, <<s>> a string
    pc,              \* position of the call in progress
    strategy,        \* local `strategy` of query(): <<>> before it is set
    path,            \* which of query_hybrid / query_simple was entered
    prod_idx,        \* loop index of `for prod_id in product_ids`
    context,         \* local `context` of get_graph_context_for_question
    graph_context_raw, \* local of query_hybrid: <<>> before the extractor returns, <<ctx>> after
    graph_calls,     \* graph queries executed during the call, in order
    vector_calls,    \* retriever invocations during the call (their k)
    vector_docs,     \* local `vector_docs`: <<>> before retrieval, <<docs>> after
    gen_calls,       \* chain.invoke invocations during the call: arguments and outcome
    result,          \* value returned by query(): <<>> none, <<r>> returned r
    raised,          \* the collaborator whose exception left the call, or "none"
    routing,         \* value returned by explain_routing(): <<>> none, <<r>>
    earlier_error,   \* history (recorded in SessionSpec): an earlier call on this HybridRAG
                     \* ended in a collaborator error
    deployments,     \* graph content: the DEPLOYED_AT relationships of the product
    query_call,      \* a direct call of a Neo4jQuerier query: <<>> none, <<[product_id, rows]>>
    formatted,       \* value returned by a direct format_graph_context(): <<>> none, <<text>>
    sales            \* graph content: the Sale nodes, each with its trade show and products

vars == << question, force_strategy, pc, strategy, path, prod_idx, context,
           graph_context_raw, graph_calls, vector_calls, vector_docs, gen_calls, result, raised,
           routing, earlier_error, deployments, query_call, formatted, sales >>

----------------------------------------------------------------------------
(* Bounds of the model *)

\* a question is at most MaxWords vocabulary fragments joined by a space
MaxWords == 2
\* a graph query returns at most MaxRows rows
MaxRows == 1
\* in a session with recorded history, a question is at most MaxSessionWords fragments
MaxSessionWords == 1
\* the product of the graph has at most MaxDeployments deployments
MaxDeployments == 2
\* the graph has at most MaxSales sales
MaxSales == 2
\* an item given directly to the formatter has at most MaxFormatRows rows
MaxFormatRows == 3

----------------------------------------------------------------------------
(* Texts: str.lower() and the `in` substring test *)

\* the text of a literal
Chars(s) == [ i \in 1..Len(s) |-> SubSeq(s, i, i) ]
\* the texts of a list of literals
TextList(l) == [ i \in 1..Len(l) |-> Chars(l[i]) ]

UpperChars == Chars("ABCDEFGHIJKLMNOPQRSTUVWXYZÉÈÀÙÇ")
LowerChars == Chars("abcdefghijklmnopqrstuvwxyzéèàùç")

\* the lower-case form of each upper-case character
LowerOf ==
    [ u \in { UpperChars[i] : i \in 1..Len(UpperChars) } |->
        LowerChars[CHOOSE j \in 1..Len(UpperChars) : UpperChars[j] = u] ]

LowerChar(c) == IF c \in DOMAIN LowerOf THEN LowerOf[c] ELSE c

\* Python s.lower()
Lower(s) == [ i \in 1..Len(s) |-> LowerChar(s[i]) ]

\* Python `k in s` for strings
Contains(s, k) ==
    \E i \in 1..(Len(s) - Len(k) + 1) : SubSeq(s, i, i + Len(k) - 1) = k

\* Python any(word in s for word in words)
AnyIn(words, s) == \E i \in 1..Len(words) : Contains(s, words[i])

----------------------------------------------------------------------------
(* HybridRAG.classify_question *)

multi_hop_keywords == TextList(
    << "quels événements", "quels salons", "où", "qui",
       "liste", "lister", "tous les", "combien",
       "total", "somme", "moyenne", "maximum", "minimum",
       "économisé", "co2", "carbone",
       "vendus à", "utilisés aux", "déployés à", "présentés à",
       "projets r&d", "recherche", "développement",
       "collectivités", "entreprises", "particuliers",
       "festival", "salon", "avec", "par" >>)

simple_keywords == TextList(
    << "qu'est-ce que", "c'est quoi", "décris", "describe",
       "caractéristiques", "specifications", "prix", "coût",
       "comment fonctionne", "fonctionnement",
       "garantie", "warranty", "maintenance" >>)

\* sum(1 for keyword in keywords if keyword in question_lower)
Score(keywords, question_lower) ==
    Cardinality({ i \in 1..Len(keywords) : Contains(question_lower, keywords[i]) })

multi_hop_score(q) == Score(multi_hop_keywords, Lower(q))
simple_score(q) == Score(simple_keywords, Lower(q))

\* variants of the decision: a tie goes to multi_hop; a margin of two is
\* required; the comparison is reversed
DecisionTieMultiHop(mh, sp) == IF mh >= sp THEN "multi_hop" ELSE "simple"
DecisionByMargin(mh, sp) == IF mh > sp + 1 THEN "multi_hop" ELSE "simple"
DecisionReversed(mh, sp) == IF sp > mh THEN "multi_hop" ELSE "simple"

\* the decision of lines 67-70 on the two scores
Decision(mh, sp) == IF mh > sp THEN "multi_hop" ELSE "simple"

classify_question(q) == Decision(multi_hop_score(q), simple_score(q))

----------------------------------------------------------------------------
(* Inputs: the questions a caller may ask and the values it may force *)

Vocabulary ==
    { Chars(w) : w \in
        { "Quels événements", "vendus à Paris", "CO2", "PG-M01 et PG-U01",
          "collectivités", "projets R&D", "festival", "batterie", "LiFePO4",
          "salons", "prix", "Décris", "garantie", "le produit" } }

Space == Chars(" ")
EmptyText == Chars("")

RECURSIVE QuestionsOfLen(_)
QuestionsOfLen(n) ==
    IF n = 0 THEN { EmptyText }
    ELSE IF n = 1 THEN Vocabulary
    ELSE { q \o Space \o w : q \in QuestionsOfLen(n - 1), w \in Vocabulary }

\* QueryExamples.MULTI_HOP_QUESTIONS
MULTI_HOP_QUESTIONS == TextList(
    << "Quels événements ont utilisé des produits vendus à Pollutec Paris?",
       "Quel est le CO2 total économisé par le produit PG-M01?",
       "Quels salons ont généré le plus de revenus avec les collectivités?",
       "Quels projets R&D visent les produits utilisés aux festivals?",
       "Quels produits avec batteries LiFePO4 ont été vendus?",
       "Dans quels salons le PG-U01 a-t-il été vendu?" >>)

Questions ==
    UNION { QuestionsOfLen(n) : n \in 0..MaxWords }
        \cup { MULTI_HOP_QUESTIONS[i] : i \in 1..Len(MULTI_HOP_QUESTIONS) }

\* the questions of a session with recorded history
SessionQuestions == UNION { QuestionsOfLen(n) : n \in 0..MaxSessionWords }

\* force_strategy: <<>> is None, <<s>> the string s
ForceValues == { <<>>, <<"simple">>, <<"multi_hop">>, <<"hybrid">>, <<"Multi_Hop">> }

\* Python truthiness of force_strategy (None and "" are falsy)
Truthy(f) == f # <<>> /\ f[1] # ""

----------------------------------------------------------------------------
(* Collaborators: rows of the graph executor, passages, generated answers *)

\* the values of a record: a str, an int, a float (kept in tenths) or None
StrValue(t) == [kind |-> "str", text |-> t, n |-> 0]
IntValue(i) == [kind |-> "int", text |-> EmptyText, n |-> i]
FloatValue(tenths) == [kind |-> "float", text |-> EmptyText, n |-> tenths]
NoneValue == [kind |-> "none", text |-> EmptyText, n |-> 0]

\* one (key, value) of a record: a scalar, or a list of scalars
ScalarField(k, v) == [key |-> Chars(k), isList |-> FALSE, value |-> v, values |-> <<>>]
Field(k, v) == ScalarField(k, StrValue(Chars(v)))
ListField(k, vs) ==
    [key |-> Chars(k), isList |-> TRUE, value |-> NoneValue,
     values |-> [i \in 1..Len(vs) |-> StrValue(Chars(vs[i]))]]

EventNames == << "Festival Solaire", "Marathon Vert", "Expo Climat" >>
ShowNames == << "Pollutec Paris", "Salon Energaia", "Intersolar Lyon" >>
ProductNames == << "GreenPower Max", "GreenPower Compact", "GreenPower Pro" >>
Amounts == << FloatValue(9117500), FloatValue(250), IntValue(0) >>
Samples == 1..3
Sample(n) == ((n - 1) % 3) + 1

QueryNames ==
    { "query_events_with_products_sold_at_tradeshows",
      "query_total_co2_saved_by_product",
      "query_tradeshows_sales_by_customer_type",
      "query_rd_projects_for_festival_products",
      "query_products_by_battery_type",
      "query_top_revenue_tradeshows" }

\* the two queries of Neo4jQuerier that no rule of the extractor calls
UnusedQueries ==
    { "query_product_sales_across_tradeshows",
      "query_events_powered_by_product_type" }

\* the query methods of Neo4jQuerier
LibraryQueries == QueryNames \cup UnusedQueries

\* sample rows of each query; the fields are those of its RETURN clause, in order
RowTable ==
    [ query \in LibraryQueries |-> [ n \in Samples |->
        CASE query = "query_events_with_products_sold_at_tradeshows" ->
               << Field("event_name", EventNames[n]),
                  Field("event_type", "festival"),
                  Field("event_location", "Lyon"),
                  ListField("products_used", << ProductNames[n], ProductNames[1] >>),
                  ListField("tradeshows", << ShowNames[n] >>) >>
          [] query = "query_total_co2_saved_by_product" ->
               << Field("product_name", ProductNames[n]),
                  Field("product_id", "PG-M01"),
                  ScalarField("total_co2_saved_tonnes", Amounts[n]),
                  ScalarField("num_deployments", IntValue(2)),
                  ListField("events", << EventNames[n], EventNames[1] >>) >>
          [] query = "query_tradeshows_sales_by_customer_type" ->
               << Field("tradeshow_name", ShowNames[n]),
                  Field("location", "Paris"),
                  Field("date", "2024-10-10"),
                  ScalarField("total_revenue", Amounts[n]),
                  ScalarField("total_units", IntValue(12)),
                  ListField("products_sold", << ProductNames[n] >>) >>
          [] query = "query_rd_projects_for_festival_products" ->
               << Field("rd_project_name", ProductNames[n]),
                  Field("objective", "réduire les coûts"),
                  Field("status", "en cours"),
                  ScalarField("projected_savings", Amounts[n]),
                  ListField("target_products", << ProductNames[n] >>),
                  ListField("festivals", << EventNames[n] >>) >>
          [] query = "query_products_by_battery_type" ->
               << Field("product_id", "PG-U01"),
                  Field("product_name", ProductNames[n]),
                  Field("battery_capacity", "5 kWh"),
                  Field("battery_type", "LiFePO4"),
                  ScalarField("total_cost", Amounts[n]),
                  ScalarField("price", Amounts[n]) >>
          [] query = "query_product_sales_across_tradeshows" ->
               << Field("tradeshow_name", ShowNames[n]),
                  Field("location", "Paris"),
                  Field("date", "2024-10-10"),
                  Field("customer_type", "collectivites"),
                  ScalarField("quantity", IntValue(3)),
                  ScalarField("sale_revenue", Amounts[n]) >>
          [] query = "query_events_powered_by_product_type" ->
               << Field("event_name", EventNames[n]),
                  Field("event_type", "festival"),
                  Field("location", "Lyon"),
                  ScalarField("attendees", IntValue(340)),
                  Field("co2_saved", "12.5 tonnes"),
                  ListField("products_used", << ProductNames[n] >>),
                  ScalarField("total_units", IntValue(2)) >>
          [] OTHER ->
               << Field("name", ShowNames[n]),
                  Field("location", "Paris"),
                  Field("date", "2024-10-10"),
                  ScalarField("total_sales", Amounts[n]),
                  ScalarField("leads_generated", IntValue(340)) >> ] ]

\* the n-th row a query may return
Row(query, n) == RowTable[query][Sample(n)]

\* what one execution of a graph query may do: raise, or return 0..MaxRows rows
GraphOutcomes(query) ==
    { [raise |-> TRUE, rows |-> <<>>] } \cup
    { [raise |-> FALSE, rows |-> [i \in 1..n |-> Row(query, i)]] : n \in 0..MaxRows }

\* what retriever.invoke may do: raise, or return at most k passages
Passages == TextList(<< "Le GreenPower Max est un générateur solaire.",
                        "Garantie de 5 ans.", "Prix: 12000 EUR." >>)
VectorOutcomes(k) ==
    { [raise |-> TRUE, docs |-> <<>>] } \cup
    { [raise |-> FALSE, docs |-> SubSeq(Passages, 1, n)] : n \in {0, k} }

\* what chain.invoke may do: raise, or return a generated text
Answers == { Chars("Réponse générée") }
GenOutcomes ==
    { [raise |-> TRUE, answer |-> EmptyText] } \cup
    { [raise |-> FALSE, answer |-> a] : a \in Answers }

----------------------------------------------------------------------------
(* Neo4jQuerier.format_graph_context *)

\* sep.join(parts)
RECURSIVE Join(_, _)
Join(sep, parts) ==
    IF Len(parts) = 0 THEN EmptyText
    ELSE IF Len(parts) = 1 THEN parts[1]
    ELSE parts[1] \o sep \o Join(sep, Tail(parts))

ColonSpace == Chars(": ")
CommaSpace == Chars(", ")
Newline == Chars("\n")
RowSeparator == Chars("---")
HeaderOpen == Chars("\n=== Résultats de la requête: ")
HeaderClose == Chars(" ===\n")

Digits == Chars("0123456789")
Dot == Chars(".")
NoneText == Chars("None")

\* str(n) of an int n >= 0
RECURSIVE IntText(_)
IntText(n) ==
    IF n < 10 THEN << Digits[n + 1] >>
    ELSE IntText(n \div 10) \o << Digits[(n % 10) + 1] >>

\* str(x) of a float x >= 0 with one decimal, given in tenths
FloatText(tenths) == IntText(tenths \div 10) \o Dot \o << Digits[(tenths % 10) + 1] >>

\* the text an f-string or str() gives for a value
Str(v) ==
    CASE v.kind = "str" -> v.text
      [] v.kind = "int" -> IntText(v.n)
      [] v.kind = "float" -> FloatText(v.n)
      [] OTHER -> NoneText

\* variant: a list value is formatted as one scalar, its first element
FieldLineFirstOfList(f) ==
    IF f.isList
    THEN f.key \o ColonSpace \o (IF Len(f.values) = 0 THEN EmptyText ELSE Str(f.values[1]))
    ELSE f.key \o ColonSpace \o Str(f.value)

\* the line appended for one (key, value) of a row
FieldLine(f) ==
    IF f.isList
    THEN f.key \o ColonSpace \o Join(CommaSpace, [i \in 1..Len(f.values) |-> Str(f.values[i])])
    ELSE f.key \o ColonSpace \o Str(f.value)

\* the lines appended for one row: its fields in order, then the separator
RowLines(row) == [ i \in 1..Len(row) |-> FieldLine(row[i]) ] \o << RowSeparator >>

\* variant: the separator is written between the rows of an item, not after each
RECURSIVE RowsLinesBetween(_)
RowsLinesBetween(rows) ==
    IF Len(rows) = 0 THEN <<>>
    ELSE [ i \in 1..Len(Head(rows)) |-> FieldLine(Head(rows)[i]) ]
         \o (IF Len(rows) = 1 THEN <<>> ELSE << RowSeparator >> \o RowsLinesBetween(Tail(rows)))

RECURSIVE RowsLines(_)
RowsLines(rows) ==
    IF Len(rows) = 0 THEN <<>> ELSE RowLines(Head(rows)) \o RowsLines(Tail(rows))

\* the parts appended for one item; an item without results is skipped
ItemParts(item) ==
    IF Len(item.results) = 0 THEN <<>>
    ELSE << HeaderOpen \o item.query_type \o HeaderClose >> \o RowsLines(item.results)

RECURSIVE FormattedParts(_)
FormattedParts(ctx) ==
    IF Len(ctx) = 0 THEN <<>> ELSE ItemParts(Head(ctx)) \o FormattedParts(Tail(ctx))

format_graph_context(ctx) ==
    IF Len(ctx) = 0 THEN EmptyText ELSE Join(Newline, FormattedParts(ctx))

----------------------------------------------------------------------------
(* Neo4jQuerier.get_graph_context_for_question: the trigger words *)

events_words == TextList(<< "événements", "events", "déploiements" >>)
sold_words == TextList(<< "vendus", "sold", "salon", "tradeshow", "pollutec", "paris" >>)
co2_words == TextList(<< "co2", "carbone", "émissions", "économisé" >>)
product_ids == TextList(<< "PG-U01", "PG-M01", "PG-P01", "PG-C01", "PG-M02" >>)
collectivites_words == TextList(<< "collectivités", "collectivites", "municipalités" >>)
rd_words == TextList(<< "r&d", "recherche", "développement", "projets" >>)
rd_target_words == TextList(<< "festival", "événements", "coûts", "réduire" >>)
battery_words == TextList(<< "batterie", "battery", "lifepo4", "tesla" >>)
top_words == TextList(<< "top", "meilleurs", "plus", "salons", "revenus" >>)

Pollutec == Chars("pollutec")
Paris == Chars("paris")
LocationParis == Chars("Paris")
Lifepo4 == Chars("lifepo4")
Tesla == Chars("tesla")
BatteryLiFePO4 == Chars("LiFePO4")
BatteryTesla == Chars("Tesla")
Collectivites == Chars("collectivites")

\* variant: only the name of the show selects the location
EventsLocationPollutecOnly(question_lower) ==
    IF Contains(question_lower, Pollutec) THEN << LocationParis >> ELSE <<>>

\* `location` of the events rule: <<>> is None
EventsLocation(question_lower) ==
    IF Contains(question_lower, Pollutec) \/ Contains(question_lower, Paris)
    THEN << LocationParis >> ELSE <<>>

\* `battery_type` of the battery rule
BatteryType(question_lower) ==
    IF Contains(question_lower, Lifepo4) THEN BatteryLiFePO4
    ELSE IF Contains(question_lower, Tesla) THEN BatteryTesla
    ELSE EmptyText

\* the query_type labels of the items
EventsType == Chars("events_with_products_sold_at_tradeshows")
Co2TypePrefix == Chars("total_co2_saved_by_")
Co2Type(prod_id) == Co2TypePrefix \o prod_id
CollectivitesType == Chars("tradeshows_collectivites_sales")
RdType == Chars("rd_projects_for_festivals")
BatteryTypePrefix == Chars("products_with_")
BatteryTypeSuffix == Chars("_battery")
BatteryItemType(battery_type) == BatteryTypePrefix \o battery_type \o BatteryTypeSuffix
TopType == Chars("top_revenue_tradeshows")

\* the conditions under which each rule executes its query
EventsRuleRuns(question_lower) ==
    AnyIn(events_words, question_lower) /\ AnyIn(sold_words, question_lower)
\* variant: the product id is looked for as it is written, in capitals
Co2RuleRunsExactCase(question_lower, i) ==
    AnyIn(co2_words, question_lower) /\ Contains(question_lower, product_ids[i])

\* the CO2 rule, for the i-th candidate product id
Co2RuleRuns(question_lower, i) ==
    AnyIn(co2_words, question_lower) /\ Contains(question_lower, Lower(product_ids[i]))
CollectivitesRuleRuns(question_lower) == AnyIn(collectivites_words, question_lower)
RdRuleRuns(question_lower) ==
    AnyIn(rd_words, question_lower) /\ AnyIn(rd_target_words, question_lower)
\* variant: the battery rule runs its query on its trigger words alone
BatteryRuleRunsOnTrigger(question_lower) == AnyIn(battery_words, question_lower)
BatteryRuleRuns(question_lower) ==
    AnyIn(battery_words, question_lower) /\ Len(BatteryType(question_lower)) > 0
\* variant: the top-revenue query is a default that always runs
TopRuleRunsAlways(question_lower) == TRUE
TopRuleRuns(question_lower) == AnyIn(top_words, question_lower)

\* variant: the item is appended whatever the results
CollectAlways(ctx, query_type, results) ==
    Append(ctx, [query_type |-> query_type, results |-> results])

\* variant: a new item is put in front of the earlier ones
CollectInFront(ctx, query_type, results) ==
    IF Len(results) > 0
    THEN << [query_type |-> query_type, results |-> results] >> \o ctx
    ELSE ctx

\* `if results: context.append({...})`
Collect(ctx, query_type, results) ==
    IF Len(results) > 0
    THEN Append(ctx, [query_type |-> query_type, results |-> results])
    ELSE ctx

----------------------------------------------------------------------------
(* Neo4jQuerier.query_total_co2_saved_by_product: the Cypher query, evaluated *)
(* on the deployments of one product.  A float is kept in tenths; the        *)
(* reduction texts of the graph have at most one decimal.                    *)

\* the events of the graph: name and co2_reduction (absent on the last one)
GraphEventNames == TextList(
    << "Festival Solaire", "Marathon Vert", "Expo Climat", "Salon Bio",
       "Fête Verte", "Course Nature", "Village Eco" >>)
GraphReductions == TextList(
    << "12.5 tonnes", "unknown", "3 tonnes", "5 kg",
       "environ 2 tonnes", "0.5 Tonnes" >>)
GraphEvents ==
    [ i \in 1..Len(GraphEventNames) |->
        [ name |-> GraphEventNames[i],
          co2_reduction |-> IF i <= Len(GraphReductions) THEN << GraphReductions[i] >> ELSE <<>> ] ]

\* the product of the graph
GraphProductName == Chars("GreenPower Max")
GraphProductId == product_ids[2]

\* a DEPLOYED_AT relationship of the product: its event and its quantity (<<>> absent)
Quantities == { <<>>, << 1 >>, << 2 >> }
DeploymentSet == [ event : 1..Len(GraphEvents), quantity : Quantities ]

RECURSIVE DeploymentsOfLen(_)
DeploymentsOfLen(n) ==
    IF n = 0 THEN { <<>> }
    ELSE { Append(ds, d) : ds \in DeploymentsOfLen(n - 1), d \in DeploymentSet }

DeploymentLists == UNION { DeploymentsOfLen(n) : n \in 0..MaxDeployments }

\* the product ids a caller asks the query for
QueriedProducts == { product_ids[1], product_ids[2] }

Tonnes == Chars("tonnes")

\* split(s, ' ')[0]
FirstToken(s) ==
    LET spaces == { i \in 1..Len(s) : s[i] = " " }
    IN  IF spaces = {} THEN s
        ELSE SubSeq(s, 1, (CHOOSE i \in spaces : \A j \in spaces : i <= j) - 1)

DigitValue ==
    [ d \in { Digits[i] : i \in 1..Len(Digits) } |->
        (CHOOSE i \in 1..Len(Digits) : Digits[i] = d) - 1 ]
IsDigits(t) == \A i \in 1..Len(t) : t[i] \in DOMAIN DigitValue

\* the number a text of digits denotes
RECURSIVE Number(_)
Number(t) ==
    IF Len(t) = 0 THEN 0
    ELSE Number(SubSeq(t, 1, Len(t) - 1)) * 10 + DigitValue[t[Len(t)]]

\* Cypher toFloat on a string: the float of a decimal numeral, null otherwise
toFloat(t) ==
    LET dots == { i \in 1..Len(t) : t[i] = "." }
    IN  IF dots = {}
        THEN (IF Len(t) > 0 /\ IsDigits(t) THEN FloatValue(Number(t) * 10) ELSE NoneValue)
        ELSE IF Cardinality(dots) > 1 THEN NoneValue
        ELSE LET p == CHOOSE i \in dots : TRUE
                 whole == SubSeq(t, 1, p - 1)
                 frac == SubSeq(t, p + 1, Len(t))
             IN  IF IsDigits(whole) /\ IsDigits(frac) /\ Len(whole) + Len(frac) > 0
                 THEN FloatValue(Number(whole) * 10
                                 + (IF Len(frac) = 0 THEN 0 ELSE DigitValue[frac[1]]))
                 ELSE NoneValue

\* a float (or null) times an integer
Times(v, q) == IF v.kind = "none" THEN NoneValue ELSE FloatValue(v.n * q)

\* COALESCE(d.quantity, 1)
Coalesce(quantity, default) == IF quantity = <<>> THEN default ELSE quantity[1]

\* variant: the quantity of the deployment is not counted
co2_saved_without_quantity(d) ==
    LET co2_reduction == GraphEvents[d.event].co2_reduction
    IN  IF co2_reduction # <<>> /\ Contains(co2_reduction[1], Tonnes)
        THEN toFloat(FirstToken(co2_reduction[1]))
        ELSE IntValue(0)

\* the CASE expression `co2_saved` of one deployment
co2_saved(d) ==
    LET co2_reduction == GraphEvents[d.event].co2_reduction
    IN  IF co2_reduction # <<>> /\ Contains(co2_reduction[1], Tonnes)
        THEN Times(toFloat(FirstToken(co2_reduction[1])), Coalesce(d.quantity, 1))
        ELSE IntValue(0)

\* a number in tenths
Tenths(v) == IF v.kind = "float" THEN v.n ELSE v.n * 10

RECURSIVE TotalTenths(_)
TotalTenths(values) ==
    IF Len(values) = 0 THEN 0 ELSE Tenths(Head(values)) + TotalTenths(Tail(values))

\* Cypher sum(): nulls are skipped; the sum is a float as soon as one term is
CypherSum(values) ==
    LET terms == SelectSeq(values, LAMBDA v : v.kind # "none")
    IN  IF \E i \in 1..Len(terms) : terms[i].kind = "float"
        THEN FloatValue(TotalTenths(terms))
        ELSE IntValue(TotalTenths(terms) \div 10)

Co2Keys == TextList(
    << "product_name", "product_id", "total_co2_saved_tonnes", "num_deployments", "events" >>)

\* the records of the query: one for the product when it has deployments
query_total_co2_saved_by_product(graph, product_id) ==
    LET matched == IF product_id = GraphProductId THEN graph ELSE <<>>
    IN  IF Len(matched) = 0 THEN <<>>
        ELSE << << [key |-> Co2Keys[1], isList |-> FALSE,
                    value |-> StrValue(GraphProductName), values |-> <<>>],
                   [key |-> Co2Keys[2], isList |-> FALSE,
                    value |-> StrValue(GraphProductId), values |-> <<>>],
                   [key |-> Co2Keys[3], isList |-> FALSE,
                    value |-> CypherSum([i \in 1..Len(matched) |-> co2_saved(matched[i])]),
                    values |-> <<>>],
                   [key |-> Co2Keys[4], isList |-> FALSE,
                    value |-> IntValue(Len(matched)), values |-> <<>>],
                   [key |-> Co2Keys[5], isList |-> TRUE, value |-> NoneValue,
                    values |-> [i \in 1..Len(matched) |->
                                   StrValue(GraphEvents[matched[i].event].name)]] >> >>

----------------------------------------------------------------------------
(* Neo4jQuerier.query_tradeshows_sales_by_customer_type and                 *)
(* query_events_with_products_sold_at_tradeshows: the Cypher queries,       *)
(* evaluated on the sales of the graph (Neo4jLoader.load_events)            *)

\* the trade shows of the graph
GraphTradeShows ==
    << [ name |-> Chars("Pollutec Paris"), location |-> Chars("Paris Nord Villepinte"),
         date |-> Chars("2024-10-10") ],
       [ name |-> Chars("Intersolar Lyon"), location |-> Chars("Lyon Eurexpo"),
         date |-> Chars("2024-06-19") ] >>

\* the names of the products, by position in product_ids
GraphProductNames == TextList(
    << "GreenPower Ultra", "GreenPower Max", "GreenPower Pro", "GreenPower Compact",
       "GreenPower Max 2" >>)

Entreprises == Chars("entreprises")

\* customer_type, total_revenue (in tenths) and units of a sale
SaleKinds ==
    { [customer_type |-> Collectivites, total_revenue |-> 10000, units |-> 2],
      [customer_type |-> Collectivites, total_revenue |-> 25005, units |-> 5],
      [customer_type |-> Entreprises, total_revenue |-> 10000, units |-> 2] }

\* a Sale node: SOLD_AT one trade show, INCLUDES_PRODUCT a set of products
\* (positions in product_ids; MERGE keeps one relationship per product)
SaleSet ==
    { [ tradeshow |-> t, customer_type |-> k.customer_type,
        total_revenue |-> k.total_revenue, units |-> k.units, products |-> ps ] :
        t \in 1..Len(GraphTradeShows), k \in SaleKinds, ps \in SUBSET { 1, 2 } }

RECURSIVE SalesOfLen(_)
SalesOfLen(n) ==
    IF n = 0 THEN { <<>> }
    ELSE { Append(ss, x) : ss \in SalesOfLen(n - 1), x \in SaleSet }

\* the sale_id is the trade show's id and the customer type: MERGE keeps one
\* Sale per trade show and customer type
SaleLists ==
    { ss \in UNION { SalesOfLen(n) : n \in 0..MaxSales } :
        \A i, j \in 1..Len(ss) :
            (ss[i].tradeshow = ss[j].tradeshow /\ ss[i].customer_type = ss[j].customer_type)
                => i = j }

\* the deployments of the graph's product when the graph has sales
SoldDeployments ==
    { << [event |-> 1, quantity |-> << 2 >>] >>,
      << [event |-> 3, quantity |-> << 1 >>], [event |-> 1, quantity |-> << 2 >>] >> }

\* the arguments a caller passes
CustomerTypes == { Collectivites, Entreprises }
LocationLyon == Chars("lyon")
Locations == { <<>>, << EmptyText >>, << LocationParis >>, << LocationLyon >> }

\* the elements of a set of numbers, ascending
RECURSIVE Ascending(_)
Ascending(S) ==
    IF S = {} THEN <<>>
    ELSE LET m == CHOOSE x \in S : \A y \in S : x <= y
         IN  << m >> \o Ascending(S \ { m })

\* the orders of the elements of S
Orders(S) ==
    { f \in [ 1..Cardinality(S) -> S ] : \A i, j \in 1..Cardinality(S) : f[i] = f[j] => i = j }

\* the rows the two MATCH clauses produce: one (s, t, p) per product of a sale
\* of the customer type
RECURSIVE SaleMatches(_, _, _)
SaleMatches(graph_sales, customer_type, i) ==
    IF i > Len(graph_sales) THEN <<>>
    ELSE (IF graph_sales[i].customer_type = customer_type
          THEN [ k \in 1..Cardinality(graph_sales[i].products) |->
                   [ s |-> i, t |-> graph_sales[i].tradeshow,
                     p |-> Ascending(graph_sales[i].products)[k] ] ]
          ELSE <<>>) \o SaleMatches(graph_sales, customer_type, i + 1)

SalesKeys == TextList(
    << "tradeshow_name", "location", "date", "total_revenue", "total_units", "products_sold" >>)

\* the record of one trade show: the aggregates over its matched rows
SalesRecord(graph_sales, matches, t) ==
    LET mine == SelectSeq(matches, LAMBDA m : m.t = t)
    IN  << [key |-> SalesKeys[1], isList |-> FALSE,
            value |-> StrValue(GraphTradeShows[t].name), values |-> <<>>],
           [key |-> SalesKeys[2], isList |-> FALSE,
            value |-> StrValue(GraphTradeShows[t].location), values |-> <<>>],
           [key |-> SalesKeys[3], isList |-> FALSE,
            value |-> StrValue(GraphTradeShows[t].date), values |-> <<>>],
           [key |-> SalesKeys[4], isList |-> FALSE,
            value |-> CypherSum([ k \in 1..Len(mine) |->
                                    FloatValue(graph_sales[mine[k].s].total_revenue) ]),
            values |-> <<>>],
           [key |-> SalesKeys[5], isList |-> FALSE,
            value |-> CypherSum([ k \in 1..Len(mine) |->
                                    IntValue(graph_sales[mine[k].s].units) ]),
            values |-> <<>>],
           [key |-> SalesKeys[6], isList |-> TRUE, value |-> NoneValue,
            values |-> LET ps == Ascending({ mine[k].p : k \in 1..Len(mine) })
                       IN  [ k \in 1..Len(ps) |-> StrValue(GraphProductNames[ps[k]]) ]] >>

\* the results the query may return: one record per trade show with a matched
\* row, ORDER BY total_revenue DESC; equal revenues come in either order
query_tradeshows_sales_by_customer_type(graph_sales, customer_type) ==
    LET matches == SaleMatches(graph_sales, customer_type, 1)
        shows == { matches[k].t : k \in 1..Len(matches) }
        record == [ t \in shows |-> SalesRecord(graph_sales, matches, t) ]
    IN  { [ i \in 1..Cardinality(shows) |-> record[order[i]] ] :
            order \in { o \in Orders(shows) :
                          \A i \in 1..(Cardinality(shows) - 1) :
                              Tenths(record[o[i]][4].value)
                                  >= Tenths(record[o[i + 1]][4].value) } }

\* variant: the location is compared as it is written
LocationContainsExact(show_location, location) == Contains(show_location, location)

\* toLower(t.location) CONTAINS toLower($location)
LocationContains(show_location, location) ==
    Contains(Lower(show_location), Lower(location))

\* the event names of the graph in ascending order (ORDER BY e.name)
EventsByName == << 6, 3, 1, 5, 2, 4, 7 >>

GraphEventType == Chars("festival")
GraphEventLocation == Chars("Lyon")

EventsKeys == TextList(
    << "event_name", "event_type", "event_location", "products_used", "tradeshows" >>)

\* the records of the query: one per event at which a product is deployed
\* that a sale includes, the sale being at a trade show the location admits
\* (`if location:` picks the query with the WHERE clause); the graph deploys
\* its one product, GraphProductId
query_events_with_products_sold_at_tradeshows(graph_deployments, graph_sales, location) ==
    LET filtered == location # <<>> /\ Len(location[1]) > 0
        shows == { graph_sales[i].tradeshow : i \in
                     { i \in 1..Len(graph_sales) :
                         /\ 2 \in graph_sales[i].products
                         /\ filtered =>
                               LocationContains(
                                   GraphTradeShows[graph_sales[i].tradeshow].location,
                                   location[1]) } }
        events == IF shows = {} THEN {}
                  ELSE { graph_deployments[i].event : i \in 1..Len(graph_deployments) }
        ordered == SelectSeq(EventsByName, LAMBDA e : e \in events)
        names == Ascending(shows)
    IN  [ k \in 1..Len(ordered) |->
            << [key |-> EventsKeys[1], isList |-> FALSE,
                value |-> StrValue(GraphEvents[ordered[k]].name), values |-> <<>>],
               [key |-> EventsKeys[2], isList |-> FALSE,
                value |-> StrValue(GraphEventType), values |-> <<>>],
               [key |-> EventsKeys[3], isList |-> FALSE,
                value |-> StrValue(GraphEventLocation), values |-> <<>>],
               [key |-> EventsKeys[4], isList |-> TRUE, value |-> NoneValue,
                values |-> << StrValue(GraphProductName) >>],
               [key |-> EventsKeys[5], isList |-> TRUE, value |-> NoneValue,
                values |-> [ j \in 1..Len(names) |->
                               StrValue(GraphTradeShows[names[j]].name) ]] >> ]

----------------------------------------------------------------------------
(* HybridRAG.query, query_hybrid, query_simple, explain_routing *)

\* k of search_kwargs and the limit passed to query_top_revenue_tradeshows
RetrieverK == 3
TopLimit == 5

Placeholder == Chars("Aucune information relationnelle trouvée.")

\* variant: the forced strategy is ignored
EffectiveStrategyClassifierOnly(q, f) == classify_question(q)

\* lines 174-177 of query(): the strategy that is routed on
EffectiveStrategy(q, f) == IF Truthy(f) THEN f[1] ELSE classify_question(q)

\* variant: every strategy but 'simple' is routed to the hybrid path
RoutedPathUnlessSimple(s) == IF s = "simple" THEN "simple" ELSE "hybrid"

\* lines 180-183 of query(): the method the strategy is routed to
RoutedPath(s) == IF s = "multi_hop" THEN "hybrid" ELSE "simple"

\* "\n\n".join([doc.page_content for doc in vector_docs])
BlankLine == Chars("\n\n")
VectorContext(docs) == Join(BlankLine, docs)

\* variant: the formatted graph context is passed as it is
HybridPromptVarsNoPlaceholder(q, docs, ctx) ==
    [ question |-> q,
      vector_context |-> VectorContext(docs),
      graph_context |-> format_graph_context(ctx) ]

\* the variables query_hybrid passes to chain.invoke
HybridPromptVars(q, docs, ctx) ==
    LET graph_context == format_graph_context(ctx)
    IN  [ question |-> q,
          vector_context |-> VectorContext(docs),
          graph_context |-> IF Len(graph_context) > 0 THEN graph_context ELSE Placeholder ]

\* the variables query_simple passes to chain.invoke
SimplePromptVars(q, docs) == [ question |-> q, context |-> VectorContext(docs) ]

\* variant: the sources carry the formatted text
HybridResultFormatted(answer, docs, ctx) ==
    [ answer |-> answer,
      sources |-> [ vector_docs |-> docs, graph_context |-> format_graph_context(ctx) ],
      strategy |-> "hybrid" ]

\* the dict query_hybrid returns
HybridResult(answer, docs, ctx) ==
    [ answer |-> answer,
      sources |-> [ vector_docs |-> docs, graph_context |-> ctx ],
      strategy |-> "hybrid" ]

\* variant: the simple path also reports an (empty) graph context
SimpleResultWithGraph(answer, docs) ==
    [ answer |-> answer,
      sources |-> [ vector_docs |-> docs, graph_context |-> <<>> ],
      strategy |-> "simple" ]

\* the dict query_simple returns
SimpleResult(answer, docs) ==
    [ answer |-> answer,
      sources |-> [ vector_docs |-> docs ],
      strategy |-> "simple" ]

\* (the ligature of "noeuds" is written oe)
HybridExplanation == Chars(
    "Cette question nécessite un RAG HYBRIDE (Qdrant + Neo4j) car elle implique:\n"
    \o "- Des relations entre entités (produits, événements, salons)\n"
    \o "- Des agrégations (total, somme, liste complète)\n"
    \o "- Du multi-hop reasoning (suivre des chemins dans le graphe)\n\n"
    \o "Le graphe Neo4j va permettre de:\n"
    \o "- Naviguer entre les noeuds liés\n"
    \o "- Calculer des agrégations\n"
    \o "- Trouver des patterns complexes")

SimpleExplanation == Chars(
    "Cette question peut être traitée avec un RAG SIMPLE (Qdrant uniquement) car elle demande:\n"
    \o "- Une description ou spécification\n"
    \o "- Des informations contenues dans les documents\n"
    \o "- Pas de relations complexes ou agrégations\n\n"
    \o "La recherche vectorielle suffit pour trouver la réponse.")

\* variant: the explanation quotes the question
explain_routing_quoting(q) ==
    LET s == classify_question(q)
    IN  [ strategy |-> s,
          explanation |-> (IF s = "multi_hop" THEN HybridExplanation ELSE SimpleExplanation)
                          \o Newline \o q ]

\* variant: the explanation decides ties for multi_hop, unlike query()
explain_routing_tie_multi_hop(q) ==
    LET s == DecisionTieMultiHop(multi_hop_score(q), simple_score(q))
    IN  [ strategy |-> s,
          explanation |-> IF s = "multi_hop" THEN HybridExplanation ELSE SimpleExplanation ]

\* the dict explain_routing returns
explain_routing(q) ==
    LET s == classify_question(q)
    IN  [ strategy |-> s,
          explanation |-> IF s = "multi_hop" THEN HybridExplanation ELSE SimpleExplanation ]

----------------------------------------------------------------------------
(* The state machine *)

Init ==
    /\ question = EmptyText
    /\ force_strategy = <<>>
    /\ pc = "idle"
    /\ strategy = <<>>
    /\ path = "none"
    /\ prod_idx = 1
    /\ context = <<>>
    /\ graph_context_raw = <<>>
    /\ graph_calls = <<>>
    /\ vector_calls = <<>>
    /\ vector_docs = <<>>
    /\ gen_calls = <<>>
    /\ result = <<>>
    /\ raised = "none"
    /\ routing = <<>>
    /\ earlier_error = FALSE
    /\ deployments = <<>>
    /\ query_call = <<>>
    /\ formatted = <<>>
    /\ sales = <<>>

\* what a call of the router leaves alone: the history of earlier calls and
\* the variables of the direct calls of Neo4jQuerier
RouterFrame == UNCHANGED << earlier_error, deployments, query_call, formatted, sales >>

\* query() up to the call of query_hybrid or query_simple
Enter(q, f) ==
    LET s == EffectiveStrategy(q, f)
    IN  /\ question' = q
        /\ force_strategy' = f
        /\ strategy' = << s >>
        /\ path' = RoutedPath(s)
        /\ pc' = IF RoutedPath(s) = "hybrid" THEN "rule_events" ELSE "s_retrieve"
        /\ UNCHANGED << prod_idx, context, graph_context_raw, graph_calls,
                        vector_calls, vector_docs, gen_calls, result, raised >>

\* a caller calls query(question, vector_store, force_strategy)
Query ==
    /\ pc = "idle"
    /\ \E q \in Questions, f \in ForceValues : Enter(q, f)
    /\ UNCHANGED routing
    /\ RouterFrame

\* a caller calls explain_routing(question)
ExplainRouting ==
    /\ pc = "idle"
    /\ \E q \in Questions :
          /\ question' = q
          /\ routing' = << explain_routing(q) >>
    /\ pc' = "explained"
    /\ UNCHANGED << force_strategy, strategy, path, prod_idx, context,
                    graph_context_raw, graph_calls, vector_calls, vector_docs,
                    gen_calls, result, raised >>
    /\ RouterFrame

\* app_hybrid.main, automatic mode: query() on the question just explained
QueryExplained ==
    /\ pc = "explained"
    /\ Enter(question, <<>>)
    /\ UNCHANGED routing
    /\ RouterFrame

\* variant: first match wins, a rule is skipped once an item was collected
RunQueryFirstMatch(query, args, limit, query_type, next) ==
    IF Len(context) > 0
    THEN /\ pc' = next
         /\ UNCHANGED << context, graph_calls, raised >>
    ELSE \E out \in GraphOutcomes(query) :
            /\ graph_calls' = Append(graph_calls,
                                     [query |-> query, args |-> args, limit |-> limit,
                                      raise |-> out.raise, rows |-> out.rows])
            /\ IF out.raise
               THEN /\ pc' = "raised"
                    /\ raised' = "graph"
                    /\ context' = context
               ELSE /\ pc' = next
                    /\ raised' = raised
                    /\ context' = Collect(context, query_type, out.rows)

\* variant: a failure of the executor is swallowed, the rule collects nothing
RunQuerySwallow(query, args, limit, query_type, next) ==
    \E out \in GraphOutcomes(query) :
        /\ graph_calls' = Append(graph_calls,
                                 [query |-> query, args |-> args, limit |-> limit,
                                  raise |-> out.raise, rows |-> out.rows])
        /\ pc' = next
        /\ raised' = raised
        /\ context' = IF out.raise THEN context ELSE Collect(context, query_type, out.rows)

\* one execution of a graph query by a rule, and the rule's `if results:`;
\* graph_calls keeps what was executed and what the executor answered
RunQuery(query, args, limit, query_type, next) ==
    \E out \in GraphOutcomes(query) :
        /\ graph_calls' = Append(graph_calls,
                                 [query |-> query, args |-> args, limit |-> limit,
                                  raise |-> out.raise, rows |-> out.rows])
        /\ IF out.raise
           THEN /\ pc' = "raised"
                /\ raised' = "graph"
                /\ context' = context
           ELSE /\ pc' = next
                /\ raised' = raised
                /\ context' = Collect(context, query_type, out.rows)

\* a rule whose conditions do not hold
SkipRule(next) ==
    /\ pc' = next
    /\ UNCHANGED << context, graph_calls, raised >>

RuleFrame ==
    /\ UNCHANGED << question, force_strategy, strategy, path, vector_calls,
                    vector_docs, gen_calls, result, routing >>
    /\ RouterFrame

RuleEvents ==
    /\ pc = "rule_events"
    /\ LET question_lower == Lower(question)
       IN  IF EventsRuleRuns(question_lower)
           THEN RunQuery("query_events_with_products_sold_at_tradeshows",
                         EventsLocation(question_lower), 0,
                         EventsType, "rule_co2")
           ELSE SkipRule("rule_co2")
    /\ UNCHANGED << prod_idx, graph_context_raw >>
    /\ RuleFrame

\* the first candidate product from position i on that the question mentions
NextProduct(question_lower, i) ==
    LET hits == { j \in i..Len(product_ids) : Co2RuleRuns(question_lower, j) }
    IN  IF hits = {} THEN Len(product_ids) + 1
        ELSE CHOOSE j \in hits : \A h \in hits : j <= h

\* the CO2 rule: one step runs the loop up to its next query, or to its end
RuleCO2 ==
    /\ pc = "rule_co2"
    /\ LET question_lower == Lower(question)
           j == NextProduct(question_lower, prod_idx)
       IN  IF j <= Len(product_ids)
           THEN /\ RunQuery("query_total_co2_saved_by_product", << product_ids[j] >>, 0,
                            Co2Type(product_ids[j]), "rule_co2")
                /\ prod_idx' = j + 1
           ELSE /\ SkipRule("rule_collectivites")
                /\ prod_idx' = j
    /\ UNCHANGED graph_context_raw
    /\ RuleFrame

RuleCollectivites ==
    /\ pc = "rule_collectivites"
    /\ LET question_lower == Lower(question)
       IN  IF CollectivitesRuleRuns(question_lower)
           THEN RunQuery("query_tradeshows_sales_by_customer_type", << Collectivites >>, 0,
                         CollectivitesType, "rule_rd")
           ELSE SkipRule("rule_rd")
    /\ UNCHANGED << prod_idx, graph_context_raw >>
    /\ RuleFrame

RuleRD ==
    /\ pc = "rule_rd"
    /\ LET question_lower == Lower(question)
       IN  IF RdRuleRuns(question_lower)
           THEN RunQuery("query_rd_projects_for_festival_products", <<>>, 0,
                         RdType, "rule_battery")
           ELSE SkipRule("rule_battery")
    /\ UNCHANGED << prod_idx, graph_context_raw >>
    /\ RuleFrame

RuleBattery ==
    /\ pc = "rule_battery"
    /\ LET question_lower == Lower(question)
           battery_type == BatteryType(question_lower)
       IN  IF BatteryRuleRuns(question_lower)
           THEN RunQuery("query_products_by_battery_type", << battery_type >>, 0,
                         BatteryItemType(battery_type), "rule_top")
           ELSE SkipRule("rule_top")
    /\ UNCHANGED << prod_idx, graph_context_raw >>
    /\ RuleFrame

\* variant: the last rule asks for the sales of a product across trade shows
RuleTopProductSales ==
    /\ pc = "rule_top"
    /\ LET question_lower == Lower(question)
       IN  IF TopRuleRuns(question_lower)
           THEN RunQuery("query_product_sales_across_tradeshows", << product_ids[1] >>, 0,
                         TopType, "h_retrieve")
           ELSE SkipRule("h_retrieve")
    /\ graph_context_raw' = IF pc' = "h_retrieve" THEN << context' >> ELSE graph_context_raw
    /\ UNCHANGED prod_idx
    /\ RuleFrame

\* the last rule; get_graph_context_for_question then returns `context`
RuleTop ==
    /\ pc = "rule_top"
    /\ LET question_lower == Lower(question)
       IN  IF TopRuleRuns(question_lower)
           THEN RunQuery("query_top_revenue_tradeshows", <<>>, TopLimit,
                         TopType, "h_retrieve")
           ELSE SkipRule("h_retrieve")
    /\ graph_context_raw' = IF pc' = "h_retrieve" THEN << context' >> ELSE graph_context_raw
    /\ UNCHANGED prod_idx
    /\ RuleFrame

\* variant: on the hybrid path the retriever is only invoked when the graph
\* context has an item
RetrieveIfGraphContext(next) ==
    IF path = "hybrid" /\ Len(context) = 0
    THEN /\ pc' = next
         /\ vector_docs' = << <<>> >>
         /\ UNCHANGED << vector_calls, raised >>
    ELSE \E out \in VectorOutcomes(RetrieverK) :
            /\ vector_calls' = Append(vector_calls, RetrieverK)
            /\ IF out.raise
               THEN /\ pc' = "raised"
                    /\ raised' = "vector"
                    /\ vector_docs' = vector_docs
               ELSE /\ pc' = next
                    /\ raised' = raised
                    /\ vector_docs' = << out.docs >>

\* variant: a first failure of the retriever is followed by a second attempt
RetrieveRetryOnce(next) ==
    \E out \in VectorOutcomes(RetrieverK) :
        /\ vector_calls' = Append(vector_calls, RetrieverK)
        /\ IF out.raise /\ Len(vector_calls) = 0
           THEN /\ pc' = pc
                /\ raised' = raised
                /\ vector_docs' = vector_docs
           ELSE IF out.raise
           THEN /\ pc' = "raised"
                /\ raised' = "vector"
                /\ vector_docs' = vector_docs
           ELSE /\ pc' = next
                /\ raised' = raised
                /\ vector_docs' = << out.docs >>

\* retriever.invoke(question) of either path
Retrieve(next) ==
    \E out \in VectorOutcomes(RetrieverK) :
        /\ vector_calls' = Append(vector_calls, RetrieverK)
        /\ IF out.raise
           THEN /\ pc' = "raised"
                /\ raised' = "vector"
                /\ vector_docs' = vector_docs
           ELSE /\ pc' = next
                /\ raised' = raised
                /\ vector_docs' = << out.docs >>

RetrieveHybrid ==
    /\ pc = "h_retrieve"
    /\ Retrieve("h_generate")
    /\ UNCHANGED << question, force_strategy, strategy, path, prod_idx, context,
                    graph_context_raw, graph_calls, gen_calls, result, routing >>
    /\ RouterFrame

RetrieveSimple ==
    /\ pc = "s_retrieve"
    /\ Retrieve("s_generate")
    /\ UNCHANGED << question, force_strategy, strategy, path, prod_idx, context,
                    graph_context_raw, graph_calls, gen_calls, result, routing >>
    /\ RouterFrame

\* the text a router that hid a generation failure would answer with
FallbackAnswer == Chars("Je ne sais pas.")

\* variant: a generation failure is hidden behind a fallback answer
GenerateFallback(prompt_vars, returned) ==
    \E out \in GenOutcomes :
        /\ gen_calls' = Append(gen_calls, [vars |-> prompt_vars, raise |-> out.raise,
                                          answer |-> out.answer])
        /\ pc' = "done"
        /\ raised' = raised
        /\ result' = IF out.raise
                     THEN << [returned[CHOOSE a \in Answers : TRUE]
                                 EXCEPT !.answer = FallbackAnswer] >>
                     ELSE << returned[out.answer] >>

\* variant: the documents are retrieved once more after the first generation
GenerateThenRetrieve(prompt_vars, returned) ==
    \E out \in GenOutcomes :
        /\ gen_calls' = Append(gen_calls, [vars |-> prompt_vars, raise |-> out.raise,
                                          answer |-> out.answer])
        /\ IF out.raise
           THEN /\ pc' = "raised"
                /\ raised' = "generator"
                /\ result' = result
           ELSE IF Len(gen_calls) = 0
           THEN /\ pc' = IF path = "hybrid" THEN "h_retrieve" ELSE "s_retrieve"
                /\ raised' = raised
                /\ result' = result
           ELSE /\ pc' = "done"
                /\ raised' = raised
                /\ result' = << returned[out.answer] >>

\* chain.invoke(prompt_vars), and the return of the dict built from its answer
\* (returned maps each answer to that dict); gen_calls keeps what was passed
\* and what the chain answered
Generate(prompt_vars, returned) ==
    \E out \in GenOutcomes :
        /\ gen_calls' = Append(gen_calls, [vars |-> prompt_vars, raise |-> out.raise,
                                          answer |-> out.answer])
        /\ IF out.raise
           THEN /\ pc' = "raised"
                /\ raised' = "generator"
                /\ result' = result
           ELSE /\ pc' = "done"
                /\ raised' = raised
                /\ result' = << returned[out.answer] >>

GenerateHybrid ==
    /\ pc = "h_generate"
    /\ LET returned == [ answer \in Answers |->
                           HybridResult(answer, vector_docs[1], graph_context_raw[1]) ]
       IN  Generate(HybridPromptVars(question, vector_docs[1], graph_context_raw[1]),
                    returned)
    /\ UNCHANGED << question, force_strategy, strategy, path, prod_idx, context,
                    graph_context_raw, graph_calls, vector_calls, vector_docs, routing >>
    /\ RouterFrame

GenerateSimple ==
    /\ pc = "s_generate"
    /\ LET returned == [ answer \in Answers |-> SimpleResult(answer, vector_docs[1]) ]
       IN  Generate(SimplePromptVars(question, vector_docs[1]), returned)
    /\ UNCHANGED << question, force_strategy, strategy, path, prod_idx, context,
                    graph_context_raw, graph_calls, vector_calls, vector_docs, routing >>
    /\ RouterFrame

\* variant: the extractor's context is kept on the instance between calls
ResetCallKeepingContext(recorded) ==
    /\ pc \in { "done", "raised" }
    /\ question' = EmptyText
    /\ force_strategy' = <<>>
    /\ pc' = "idle"
    /\ strategy' = <<>>
    /\ path' = "none"
    /\ prod_idx' = 1
    /\ context' = context
    /\ graph_context_raw' = <<>>
    /\ graph_calls' = <<>>
    /\ vector_calls' = <<>>
    /\ vector_docs' = <<>>
    /\ gen_calls' = <<>>
    /\ result' = <<>>
    /\ raised' = "none"
    /\ routing' = <<>>
    /\ earlier_error' = IF recorded THEN (earlier_error \/ pc = "raised") ELSE earlier_error
    /\ UNCHANGED << deployments, query_call, formatted, sales >>

\* the call has returned or raised; the caller is ready for its next call.
\* Nothing of the call is kept: its variables were locals.  The history of
\* how earlier calls ended is kept when it is recorded
ResetCall(recorded) ==
    /\ pc \in { "done", "raised" }
    /\ question' = EmptyText
    /\ force_strategy' = <<>>
    /\ pc' = "idle"
    /\ strategy' = <<>>
    /\ path' = "none"
    /\ prod_idx' = 1
    /\ context' = <<>>
    /\ graph_context_raw' = <<>>
    /\ graph_calls' = <<>>
    /\ vector_calls' = <<>>
    /\ vector_docs' = <<>>
    /\ gen_calls' = <<>>
    /\ result' = <<>>
    /\ raised' = "none"
    /\ routing' = <<>>
    /\ earlier_error' = IF recorded THEN (earlier_error \/ pc = "raised") ELSE earlier_error
    /\ UNCHANGED << deployments, query_call, formatted, sales >>

Reset == ResetCall(FALSE)

\* the same, with the history recorded
ResetRecorded == ResetCall(TRUE)

Next ==
    \/ Query
    \/ ExplainRouting
    \/ QueryExplained
    \/ RuleEvents
    \/ RuleCO2
    \/ RuleCollectivites
    \/ RuleRD
    \/ RuleBattery
    \/ RuleTop
    \/ RetrieveHybrid
    \/ RetrieveSimple
    \/ GenerateHybrid
    \/ GenerateSimple
    \/ Reset

Spec == Init /\ [][Next]_vars

\* query() and explain_routing() in a session with recorded history
SessionQuery ==
    /\ pc = "idle"
    /\ \E q \in SessionQuestions, f \in ForceValues : Enter(q, f)
    /\ UNCHANGED routing
    /\ RouterFrame

SessionExplainRouting ==
    /\ pc = "idle"
    /\ \E q \in SessionQuestions :
          /\ question' = q
          /\ routing' = << explain_routing(q) >>
    /\ pc' = "explained"
    /\ UNCHANGED << force_strategy, strategy, path, prod_idx, context,
                    graph_context_raw, graph_calls, vector_calls, vector_docs,
                    gen_calls, result, raised >>
    /\ RouterFrame

\* the router with the history of its earlier calls
SessionNext ==
    \/ SessionQuery
    \/ SessionExplainRouting
    \/ QueryExplained
    \/ RuleEvents
    \/ RuleCO2
    \/ RuleCollectivites
    \/ RuleRD
    \/ RuleBattery
    \/ RuleTop
    \/ RetrieveHybrid
    \/ RetrieveSimple
    \/ GenerateHybrid
    \/ GenerateSimple
    \/ ResetRecorded

SessionSpec == Init /\ [][SessionNext]_vars

----------------------------------------------------------------------------
(* Direct calls of Neo4jQuerier: a query on a graph, the formatter on a context *)

\* the label of an item of each query
QueryLabel ==
    [ query \in QueryNames |->
        CASE query = "query_events_with_products_sold_at_tradeshows" -> EventsType
          [] query = "query_total_co2_saved_by_product" -> Co2Type(GraphProductId)
          [] query = "query_tradeshows_sales_by_customer_type" -> CollectivitesType
          [] query = "query_rd_projects_for_festival_products" -> RdType
          [] query = "query_products_by_battery_type" -> BatteryItemType(BatteryLiFePO4)
          [] OTHER -> TopType ]

\* the items and the contexts a caller gives to the formatter
FormatItems ==
    { [query_type |-> QueryLabel[query], results |-> [i \in 1..n |-> Row(query, i)]] :
        query \in QueryNames, n \in 0..MaxFormatRows }
FormatInputs ==
    { <<>> } \cup { << a >> : a \in FormatItems } \cup { << a, b >> : a, b \in FormatItems }

QuerierInit ==
    /\ question = EmptyText
    /\ force_strategy = <<>>
    /\ pc = "q_idle"
    /\ strategy = <<>>
    /\ path = "none"
    /\ prod_idx = 1
    /\ graph_context_raw = <<>>
    /\ graph_calls = <<>>
    /\ vector_calls = <<>>
    /\ vector_docs = <<>>
    /\ gen_calls = <<>>
    /\ result = <<>>
    /\ raised = "none"
    /\ routing = <<>>
    /\ earlier_error = FALSE
    /\ query_call = <<>>
    /\ formatted = <<>>
    /\ \/ deployments \in DeploymentLists /\ context = <<>> /\ sales = <<>>
       \/ deployments = <<>> /\ context \in FormatInputs /\ sales = <<>>
       \/ deployments \in SoldDeployments /\ context = <<>> /\ sales \in SaleLists

QuerierFrame ==
    UNCHANGED << question, force_strategy, strategy, path, prod_idx, graph_context_raw,
                 graph_calls, vector_calls, vector_docs, gen_calls, result, raised,
                 routing, earlier_error, deployments, sales >>

\* querier.query_total_co2_saved_by_product(product_id)
QueryTotalCO2 ==
    /\ pc = "q_idle"
    /\ \E product_id \in QueriedProducts :
          query_call' = << [ product_id |-> product_id,
                             rows |-> query_total_co2_saved_by_product(deployments,
                                                                       product_id) ] >>
    /\ pc' = "q_queried"
    /\ UNCHANGED << context, formatted >>
    /\ QuerierFrame

\* the records are collected as the CO2 rule collects them, and formatted
FormatQueryResult ==
    /\ pc = "q_queried"
    /\ context' = Collect(context, Co2Type(query_call[1].product_id), query_call[1].rows)
    /\ formatted' = << format_graph_context(context') >>
    /\ pc' = "q_formatted"
    /\ UNCHANGED query_call
    /\ QuerierFrame

\* querier.format_graph_context(context)
FormatGraphContext ==
    /\ pc = "q_idle"
    /\ formatted' = << format_graph_context(context) >>
    /\ pc' = "q_formatted"
    /\ UNCHANGED << context, query_call >>
    /\ QuerierFrame

\* querier.query_tradeshows_sales_by_customer_type(customer_type)
QueryTradeshowsSales ==
    /\ pc = "q_idle"
    /\ \E customer_type \in CustomerTypes :
          \E rows \in query_tradeshows_sales_by_customer_type(sales, customer_type) :
              query_call' = << [ query |-> "query_tradeshows_sales_by_customer_type",
                                 product_id |-> EmptyText,
                                 customer_type |-> customer_type,
                                 location |-> <<>>,
                                 rows |-> rows ] >>
    /\ pc' = "q_returned"
    /\ UNCHANGED << context, formatted >>
    /\ QuerierFrame

\* querier.query_events_with_products_sold_at_tradeshows(location)
QueryEventsSold ==
    /\ pc = "q_idle"
    /\ \E location \in Locations :
          query_call' = << [ query |-> "query_events_with_products_sold_at_tradeshows",
                             product_id |-> EmptyText,
                             customer_type |-> EmptyText,
                             location |-> location,
                             rows |-> query_events_with_products_sold_at_tradeshows(
                                          deployments, sales, location) ] >>
    /\ pc' = "q_returned"
    /\ UNCHANGED << context, formatted >>
    /\ QuerierFrame

QuerierNext ==
    \/ QueryTotalCO2
    \/ QueryTradeshowsSales
    \/ QueryEventsSold
    \/ FormatQueryResult
    \/ FormatGraphContext

QuerierSpec == QuerierInit /\ [][QuerierNext]_vars

----------------------------------------------------------------------------
(* Properties *)

\* the call has just classified its question: explain_routing has returned,
\* or query() without a forced strategy has routed
Classified ==
    \/ pc = "explained"
    \/ pc \in { "rule_events", "s_retrieve" } /\ ~Truthy(force_strategy)

Verdict == IF pc = "explained" THEN routing[1].strategy ELSE strategy[1]

\* C1: a question that matches as many relational keywords as descriptive
\* ones (both counts 0 included) is classified simple.
C1_TieIsSimple ==
    Classified =>
        (multi_hop_score(question) = simple_score(question) => Verdict = "simple")

C1_Witness ==
    /\ pc = "explained"
    /\ simple_score(question) > 0
    /\ multi_hop_score(question) = simple_score(question)
    /\ Verdict = "simple"

\* C2: a question that matches strictly more relational keywords than
\* descriptive ones is classified multi_hop.
C2_MoreRelationalIsMultiHop ==
    Classified =>
        (multi_hop_score(question) > simple_score(question) => Verdict = "multi_hop")

C2_Witness ==
    /\ pc = "rule_events"
    /\ force_strategy = <<>>
    /\ simple_score(question) > 0
    /\ multi_hop_score(question) > simple_score(question)
    /\ strategy = << "multi_hop" >>

\* C3: a question that contains a descriptive keyword and no relational
\* keyword is classified simple.
C3_DescriptiveOnlyIsSimple ==
    Classified =>
        LET question_lower == Lower(question)
        IN  (AnyIn(simple_keywords, question_lower)
             /\ ~AnyIn(multi_hop_keywords, question_lower)) => Verdict = "simple"

C3_Witness ==
    /\ pc = "explained"
    /\ AnyIn(simple_keywords, Lower(question))
    /\ ~AnyIn(multi_hop_keywords, Lower(question))
    /\ Verdict = "simple"

\* C4: the strategy field of a returned result names the path that ran:
\* multi_hop for the hybrid path, simple for the vector-only path, and no
\* other label.
C4_StrategyNamesExecutedPath ==
    pc = "done" =>
        /\ result[1].strategy \in { "simple", "multi_hop" }
        /\ (path = "hybrid" => result[1].strategy = "multi_hop")
        /\ (path = "simple" => result[1].strategy = "simple")

HybridPcs ==
    { "rule_events", "rule_co2", "rule_collectivites", "rule_rd", "rule_battery",
      "rule_top", "h_retrieve", "h_generate" }
SimplePcs == { "s_retrieve", "s_generate" }

\* C5: a forced strategy decides the path whatever the classifier says:
\* multi_hop runs the hybrid path (extraction, then vector retrieval), simple
\* runs the vector-only path and no graph query.
C5_ForceOverridesClassifier ==
    /\ force_strategy = << "multi_hop" >> =>
          /\ path = "hybrid"
          /\ pc \in HybridPcs \cup { "done", "raised" }
          /\ pc = "done" => /\ graph_context_raw # <<>>
                            /\ vector_calls = << RetrieverK >>
    /\ force_strategy = << "simple" >> =>
          /\ path = "simple"
          /\ pc \in SimplePcs \cup { "done", "raised" }
          /\ graph_calls = <<>>
          /\ graph_context_raw = <<>>
          /\ pc = "done" => vector_calls = << RetrieverK >>

C5_Witness ==
    /\ pc = "done"
    /\ force_strategy = << "multi_hop" >>
    /\ Len(graph_calls) > 0
    /\ path = "hybrid"
    /\ classify_question(question) = "simple"

\* C6 as stated: on the hybrid path the vector retriever is invoked with k=3
\* however the extraction ended.
C6_BothRetrievalsAlwaysRun ==
    (path = "hybrid" /\ pc \in { "done", "raised" }) => vector_calls = << RetrieverK >>

\* C6: on the hybrid path the extraction runs first; the vector retriever is
\* invoked with k=3 exactly when the extraction has returned (with or without
\* items), and it is not invoked when the extraction raised.
C6_VectorRunsOnceExtractionReturns ==
    (path = "hybrid" /\ pc \in { "done", "raised" }) =>
        IF raised = "graph"
        THEN vector_calls = <<>> /\ graph_context_raw = <<>>
        ELSE vector_calls = << RetrieverK >> /\ graph_context_raw # <<>>

C6_Witness ==
    /\ path = "hybrid"
    /\ pc = "done"
    /\ Len(graph_calls) > 0
    /\ graph_context_raw = << <<>> >>
    /\ vector_calls = << RetrieverK >>

\* C7: no item of the extractor's context has an empty results sequence.
C7_NoEmptyItem ==
    /\ \A i \in 1..Len(context) : Len(context[i].results) > 0
    /\ graph_context_raw # <<>> =>
          \A i \in 1..Len(graph_context_raw[1]) : Len(graph_context_raw[1][i].results) > 0

C7_Witness ==
    /\ pc = "h_retrieve"
    /\ Len(graph_calls) = 2
    /\ Len(graph_calls[1].rows) = 0
    /\ Len(graph_calls[2].rows) > 0
    /\ Len(graph_context_raw[1]) = 1

\* what the extractor asked of the graph executor, without the answers
CallKey(c) == [query |-> c.query, args |-> c.args, limit |-> c.limit]

\* the queries a question selects, as a function of its text alone
RECURSIVE Co2Selected(_, _)
Co2Selected(question_lower, i) ==
    IF i > Len(product_ids) THEN <<>>
    ELSE (IF Co2RuleRuns(question_lower, i)
          THEN << [query |-> "query_total_co2_saved_by_product",
                   args |-> << product_ids[i] >>, limit |-> 0] >>
          ELSE <<>>) \o Co2Selected(question_lower, i + 1)

SelectedQueries(question_lower) ==
    (IF EventsRuleRuns(question_lower)
     THEN << [query |-> "query_events_with_products_sold_at_tradeshows",
              args |-> EventsLocation(question_lower), limit |-> 0] >>
     ELSE <<>>)
    \o Co2Selected(question_lower, 1)
    \o (IF CollectivitesRuleRuns(question_lower)
        THEN << [query |-> "query_tradeshows_sales_by_customer_type",
                 args |-> << Collectivites >>, limit |-> 0] >>
        ELSE <<>>)
    \o (IF RdRuleRuns(question_lower)
        THEN << [query |-> "query_rd_projects_for_festival_products",
                 args |-> <<>>, limit |-> 0] >>
        ELSE <<>>)
    \o (IF BatteryRuleRuns(question_lower)
        THEN << [query |-> "query_products_by_battery_type",
                 args |-> << BatteryType(question_lower) >>, limit |-> 0] >>
        ELSE <<>>)
    \o (IF TopRuleRuns(question_lower)
        THEN << [query |-> "query_top_revenue_tradeshows",
                 args |-> <<>>, limit |-> TopLimit] >>
        ELSE <<>>)

\* the label of the item a call contributes
CallType(c) ==
    CASE c.query = "query_events_with_products_sold_at_tradeshows" -> EventsType
      [] c.query = "query_total_co2_saved_by_product" -> Co2Type(c.args[1])
      [] c.query = "query_tradeshows_sales_by_customer_type" -> CollectivitesType
      [] c.query = "query_rd_projects_for_festival_products" -> RdType
      [] c.query = "query_products_by_battery_type" -> BatteryItemType(c.args[1])
      [] OTHER -> TopType

\* one item for each call that returned at least one row, in call order
RECURSIVE ItemsOf(_)
ItemsOf(calls) ==
    IF Len(calls) = 0 THEN <<>>
    ELSE (IF Len(Head(calls).rows) > 0
          THEN << [query_type |-> CallType(Head(calls)), results |-> Head(calls).rows] >>
          ELSE <<>>) \o ItemsOf(Tail(calls))

\* C8: the rules are evaluated independently: when the extractor returns, it
\* has executed exactly the queries the question's text selects, whatever the
\* earlier rules did, and its context holds one item for each executed query
\* that returned at least one row.
C8_RulesIndependent ==
    pc = "h_retrieve" =>
        LET selected == SelectedQueries(Lower(question))
        IN  /\ Len(graph_calls) = Len(selected)
            /\ \A i \in 1..Len(graph_calls) : CallKey(graph_calls[i]) = selected[i]
            /\ graph_context_raw[1] = ItemsOf(graph_calls)

C8_Witness ==
    /\ pc = "h_retrieve"
    /\ Len(graph_calls) = 2
    /\ graph_calls[1].query # graph_calls[2].query
    /\ Len(graph_calls[1].rows) > 0
    /\ Len(graph_context_raw[1]) = 2

Executed(query) == \E i \in 1..Len(graph_calls) : graph_calls[i].query = query
ExecutedWith(query, args) ==
    \E i \in 1..Len(graph_calls) :
        graph_calls[i].query = query /\ graph_calls[i].args = args

\* C9 as stated: a rule whose trigger word occurs in the question executes
\* its query.
C9_TriggerWordRunsQuery ==
    pc = "h_retrieve" =>
        LET question_lower == Lower(question)
        IN  /\ AnyIn(events_words, question_lower) =>
                  Executed("query_events_with_products_sold_at_tradeshows")
            /\ AnyIn(co2_words, question_lower) =>
                  Executed("query_total_co2_saved_by_product")
            /\ AnyIn(collectivites_words, question_lower) =>
                  Executed("query_tradeshows_sales_by_customer_type")
            /\ AnyIn(rd_words, question_lower) =>
                  Executed("query_rd_projects_for_festival_products")
            /\ AnyIn(battery_words, question_lower) =>
                  Executed("query_products_by_battery_type")
            /\ AnyIn(top_words, question_lower) =>
                  Executed("query_top_revenue_tradeshows")

\* C9: a rule executes its query exactly when a trigger word occurs in the
\* question and the rule's further condition holds: a sale or venue word for
\* the events rule, a candidate product id for the CO2 rule (one query per
\* id), a target word for the R&D rule, lifepo4 or tesla for the battery
\* rule, nothing more for the collectivites and top-revenue rules.  A query
\* that was executed always had its condition; when the extractor returns,
\* every query whose condition holds was executed.
C9_RuleRunsOnFullCondition ==
    (pc = "h_retrieve" \/ (pc = "raised" /\ raised = "graph")) =>
        LET question_lower == Lower(question)
            Ran(executed, condition) ==
                /\ executed => condition
                /\ (pc = "h_retrieve" /\ condition) => executed
        IN  /\ Ran(Executed("query_events_with_products_sold_at_tradeshows"),
                   AnyIn(events_words, question_lower)
                   /\ AnyIn(sold_words, question_lower))
            /\ \A i \in 1..Len(product_ids) :
                  Ran(ExecutedWith("query_total_co2_saved_by_product", << product_ids[i] >>),
                      AnyIn(co2_words, question_lower)
                      /\ Contains(question_lower, Lower(product_ids[i])))
            /\ Ran(Executed("query_tradeshows_sales_by_customer_type"),
                   AnyIn(collectivites_words, question_lower))
            /\ Ran(Executed("query_rd_projects_for_festival_products"),
                   AnyIn(rd_words, question_lower)
                   /\ AnyIn(rd_target_words, question_lower))
            /\ Ran(Executed("query_products_by_battery_type"),
                   AnyIn(battery_words, question_lower)
                   /\ (Contains(question_lower, Lifepo4) \/ Contains(question_lower, Tesla)))
            /\ Ran(Executed("query_top_revenue_tradeshows"),
                   AnyIn(top_words, question_lower))

C9_Witness ==
    /\ pc = "h_retrieve"
    /\ Executed("query_top_revenue_tradeshows")
    /\ ~Executed("query_products_by_battery_type")
    /\ AnyIn(battery_words, Lower(question))

\* no trigger word of any rule occurs in the question
NoTriggerWord(question_lower) ==
    /\ ~AnyIn(events_words, question_lower)
    /\ ~AnyIn(co2_words, question_lower)
    /\ ~AnyIn(collectivites_words, question_lower)
    /\ ~AnyIn(rd_words, question_lower)
    /\ ~AnyIn(battery_words, question_lower)
    /\ ~AnyIn(top_words, question_lower)

\* C10: when no rule fires, the extractor returns the empty sequence, having
\* executed no graph query, and it does not raise.
C10_NoRuleNoQuery ==
    /\ pc = "h_retrieve" =>
          (NoTriggerWord(Lower(question)) =>
              graph_calls = <<>> /\ graph_context_raw = << <<>> >>)
    /\ (pc = "raised" /\ raised = "graph") => ~NoTriggerWord(Lower(question))

C10_Witness ==
    /\ pc = "h_retrieve"
    /\ force_strategy = <<>>
    /\ Len(question) > 0
    /\ NoTriggerWord(Lower(question))
    /\ graph_context_raw = << <<>> >>

\* C11: the result of the hybrid path carries in sources.graph_context the
\* sequence the extractor returned (one item for each executed query that
\* returned rows, in call order, with the rows the executor gave), not the
\* formatted text; the text passed to the generator was formatted from that
\* same sequence, so formatting left it as it was.
C11_SourcesCarryExtractorItems ==
    (pc = "done" /\ path = "hybrid") =>
        LET items == ItemsOf(graph_calls)
        IN  /\ result[1].sources.graph_context = items
            /\ result[1].sources.graph_context = graph_context_raw[1]
            /\ Len(items) > 0 =>
                  /\ gen_calls[1].vars.graph_context = format_graph_context(items)
                  /\ result[1].sources.graph_context # gen_calls[1].vars.graph_context

C11_Witness ==
    /\ pc = "done"
    /\ path = "hybrid"
    /\ Len(result[1].sources.graph_context) = 2
    /\ result[1].sources.graph_context[1].results = graph_calls[1].rows

\* C12: the simple path is vector-only: it invokes the retriever once, with
\* k=3, it executes no graph query and never calls the extractor, and the
\* sources it returns hold vector_docs and nothing else.
C12_SimplePathVectorOnly ==
    path = "simple" =>
        /\ graph_calls = <<>>
        /\ context = <<>>
        /\ graph_context_raw = <<>>
        /\ pc = "s_retrieve" => vector_calls = <<>>
        /\ pc # "s_retrieve" => vector_calls = << RetrieverK >>
        /\ pc = "done" =>
              /\ DOMAIN result[1].sources = { "vector_docs" }
              /\ result[1].sources.vector_docs = vector_docs[1]

C12_Witness ==
    /\ pc = "done"
    /\ path = "simple"
    /\ Len(result[1].sources.vector_docs) = RetrieverK
    /\ SelectedQueries(Lower(question)) # <<>>

\* C13: explain_routing invokes no collaborator and returns no query result;
\* the strategy it reports is the classifier's verdict on the question and the
\* explanation is the fixed text of that verdict.
C13_ExplainRoutingReadOnly ==
    pc = "explained" =>
        /\ graph_calls = <<>>
        /\ vector_calls = <<>>
        /\ gen_calls = <<>>
        /\ result = <<>>
        /\ raised = "none"
        /\ routing[1].strategy = classify_question(question)
        /\ routing[1].explanation =
              IF routing[1].strategy = "multi_hop" THEN HybridExplanation
              ELSE SimpleExplanation

C13_Witness ==
    /\ pc = "explained"
    /\ routing[1].strategy = "multi_hop"
    /\ routing[1].explanation = HybridExplanation
    /\ Len(question) > 0
    /\ graph_calls = <<>>

\* C14: on the hybrid path the generator never receives an empty
\* graph_context: when the formatted context is the empty text it is given the
\* placeholder, and a request that completes then returns the empty sequence
\* in sources.graph_context.
C14_PlaceholderForEmptyContext ==
    (path = "hybrid" /\ Len(gen_calls) > 0) =>
        LET graph_context == format_graph_context(graph_context_raw[1])
        IN  /\ gen_calls[1].vars.graph_context # EmptyText
            /\ graph_context = EmptyText =>
                  /\ gen_calls[1].vars.graph_context = Placeholder
                  /\ graph_context_raw[1] = <<>>
                  /\ pc = "done" => result[1].sources.graph_context = <<>>
            /\ graph_context # EmptyText => gen_calls[1].vars.graph_context = graph_context

C14_Witness ==
    /\ pc = "done"
    /\ path = "hybrid"
    /\ Len(graph_calls) > 0
    /\ gen_calls[1].vars.graph_context = Placeholder
    /\ result[1].sources.graph_context = <<>>

\* C15: when the graph executor raises in the query of a rule, the extractor
\* stops there and the failure leaves query(): no later rule runs, the
\* extractor returns no context (neither partial nor empty), neither the
\* retriever nor the generator is invoked, and query() returns no result.
C15_GraphFailurePropagates ==
    \A i \in 1..Len(graph_calls) :
        graph_calls[i].raise =>
            /\ i = Len(graph_calls)
            /\ pc = "raised"
            /\ raised = "graph"
            /\ graph_context_raw = <<>>
            /\ vector_calls = <<>>
            /\ gen_calls = <<>>
            /\ result = <<>>

C15_Witness ==
    /\ raised = "graph"
    /\ Len(graph_calls) = 2
    /\ Len(context) = 1
    /\ graph_calls[2].raise
    /\ result = <<>>

\* C16: when the generation call fails, query() raises on either path and
\* returns no result; a returned result carries the answer of a generation
\* call that succeeded.
C16_GenerationFailurePropagates ==
    /\ \A i \in 1..Len(gen_calls) :
          gen_calls[i].raise => (pc = "raised" /\ raised = "generator" /\ result = <<>>)
    /\ result # <<>> =>
          /\ Len(gen_calls) = 1
          /\ ~gen_calls[1].raise
          /\ result[1].answer = gen_calls[1].answer

C16_Witness ==
    /\ raised = "generator"
    /\ path = "hybrid"
    /\ Len(gen_calls) = 1
    /\ gen_calls[1].raise
    /\ result = <<>>

\* what a completed call returns, from its question, its force_strategy and
\* what the collaborators answered during the call
ExpectedResult ==
    IF RoutedPath(EffectiveStrategy(question, force_strategy)) = "hybrid"
    THEN HybridResult(gen_calls[1].answer, vector_docs[1], ItemsOf(graph_calls))
    ELSE SimpleResult(gen_calls[1].answer, vector_docs[1])

\* what a completed call passed to the generator, from the same
ExpectedPromptVars ==
    IF RoutedPath(EffectiveStrategy(question, force_strategy)) = "hybrid"
    THEN HybridPromptVars(question, vector_docs[1], ItemsOf(graph_calls))
    ELSE SimplePromptVars(question, vector_docs[1])

\* the graph queries a completed call asked, from its question and force_strategy
ExpectedQueries ==
    IF RoutedPath(EffectiveStrategy(question, force_strategy)) = "hybrid"
    THEN SelectedQueries(Lower(question))
    ELSE <<>>

\* C17: query() keeps no state between requests.  Whatever calls came before
\* (calls that raised included), a call starts with nothing left of them, and
\* what it asks of the collaborators and what it returns are determined by
\* its question, its force_strategy and the collaborators' answers in the call.
C17_NoStateBetweenRequests ==
    /\ pc = "idle" =>
          /\ question = EmptyText /\ force_strategy = <<>> /\ strategy = <<>>
          /\ path = "none" /\ prod_idx = 1 /\ context = <<>>
          /\ graph_context_raw = <<>> /\ graph_calls = <<>> /\ vector_calls = <<>>
          /\ vector_docs = <<>> /\ gen_calls = <<>> /\ result = <<>>
          /\ raised = "none" /\ routing = <<>>
    /\ pc = "done" =>
          /\ result[1] = ExpectedResult
          /\ gen_calls[1].vars = ExpectedPromptVars
          /\ [ i \in 1..Len(graph_calls) |-> CallKey(graph_calls[i]) ] = ExpectedQueries
          /\ vector_calls = << RetrieverK >>

C17_Witness ==
    /\ pc = "done"
    /\ earlier_error
    /\ path = "hybrid"
    /\ Len(result[1].sources.graph_context) > 0
    /\ result[1] = ExpectedResult

\* what each event of the graph contributes per unit deployed, in tenths of a
\* tonne: 12.5 tonnes and 3 tonnes count; unknown, 5 kg, a text whose first
\* token is no number, a text without the word tonnes and an absent text do not
ExpectedTenths == << 125, 0, 30, 0, 0, 0, 0 >>

RECURSIVE ExpectedTotal(_)
ExpectedTotal(ds) ==
    IF Len(ds) = 0 THEN 0
    ELSE ExpectedTenths[Head(ds).event]
            * (IF Head(ds).quantity = <<>> THEN 1 ELSE Head(ds).quantity[1])
         + ExpectedTotal(Tail(ds))

\* the total_co2_saved_tonnes of the record the query returned
ReportedTotal == query_call[1].rows[1][3].value

\* C18: the total the CO2 query reports for the product is the sum over its
\* deployments of the first token of the reduction text, read as a number,
\* times the quantity (1 when absent) when the text contains 'tonnes', and of
\* 0 for any other text; '12.5 tonnes' with quantity 2 gives 25.0 and
\* 'unknown' gives 0.  The query returns for every graph, it never fails on a
\* reduction text.
C18_Co2TotalIsSumOfContributions ==
    (pc \in { "q_queried", "q_formatted" } /\ query_call # <<>>) =>
        IF query_call[1].product_id = GraphProductId /\ Len(deployments) > 0
        THEN /\ Len(query_call[1].rows) = 1
             /\ ReportedTotal.kind \in { "int", "float" }
             /\ Tenths(ReportedTotal) = ExpectedTotal(deployments)
             /\ deployments = << [event |-> 1, quantity |-> << 2 >>] >> =>
                   ReportedTotal = FloatValue(250)
             /\ (Len(deployments) = 1 /\ deployments[1].event = 2) =>
                   ReportedTotal = IntValue(0)
        ELSE query_call[1].rows = <<>>

C18_Witness ==
    /\ pc = "q_queried"
    /\ deployments = << [event |-> 1, quantity |-> << 2 >>], [event |-> 2, quantity |-> <<>>] >>
    /\ query_call[1].product_id = GraphProductId
    /\ ReportedTotal = FloatValue(250)

\* the number of places where k occurs in s
Occurrences(s, k) ==
    Cardinality({ i \in 1..(Len(s) - Len(k) + 1) : SubSeq(s, i, i + Len(k) - 1) = k })

\* C19: format_graph_context of the empty sequence is the empty text, and of
\* a single item with N rows a text with exactly N occurrences of '---'.
C19_SeparatorPerRow ==
    pc = "q_formatted" =>
        /\ context = <<>> => formatted[1] = EmptyText
        /\ Len(context) = 1 =>
              Occurrences(formatted[1], RowSeparator) = Len(context[1].results)

C19_Witness ==
    /\ pc = "q_formatted"
    /\ Len(context) = 1
    /\ Len(context[1].results) = 3
    /\ Occurrences(formatted[1], RowSeparator) = 3

\* the line of a field: its name, ': ', and its value as text, the elements
\* of a list joined by ', '
ExpectedLine(f) ==
    f.key \o ColonSpace \o
        (IF f.isList THEN Join(CommaSpace, [i \in 1..Len(f.values) |-> Str(f.values[i])])
         ELSE Str(f.value))

\* the lines of the fields of a row, in the order of the row
ExpectedRowText(row) == Join(Newline, [i \in 1..Len(row) |-> ExpectedLine(row[i])])

LineName == Chars("name: Pollutec Paris")
LineTotalSales == Chars("total_sales: 911750.0")
LineTotalCo2 == Chars("total_co2_saved_tonnes: 25.0")
LineEvents == Chars("events: Festival Solaire, Marathon Vert")

\* C20: the formatted text contains, for every row of every item, the lines
\* 'field: value' of its fields in the row's order, a list as its elements
\* joined by ', '; e.g. 'name: Pollutec Paris' and 'total_sales: 911750.0'
\* for the first top-revenue row, and 'total_co2_saved_tonnes: 25.0' for the
\* record of the CO2 query on '12.5 tonnes' deployed twice.
C20_FieldLinesInOrder ==
    pc = "q_formatted" =>
        /\ \A i \in 1..Len(context) : \A r \in 1..Len(context[i].results) :
              Contains(formatted[1], ExpectedRowText(context[i].results[r]))
        /\ \A i \in 1..Len(context) :
              (context[i].query_type = TopType /\ Len(context[i].results) > 0) =>
                  /\ Contains(formatted[1], LineName)
                  /\ Contains(formatted[1], LineTotalSales)
        /\ (/\ deployments = << [event |-> 1, quantity |-> << 2 >>],
                                [event |-> 2, quantity |-> <<>>] >>
            /\ query_call # <<>>
            /\ query_call[1].product_id = GraphProductId) =>
                  /\ Contains(formatted[1], LineTotalCo2)
                  /\ Contains(formatted[1], LineEvents)

C20_Witness ==
    /\ pc = "q_formatted"
    /\ Len(context) = 2
    /\ context[1].query_type = TopType
    /\ context[2].query_type = EventsType
    /\ Len(context[2].results) = 2
    /\ Contains(formatted[1], LineTotalSales)
    /\ Contains(formatted[1], ExpectedRowText(context[2].results[2]))

----------------------------------------------------------------------------
(* the trade-show queries *)

\* the show a returned record is about
ShowOfRecord(row) ==
    CHOOSE t \in 1..Len(GraphTradeShows) : GraphTradeShows[t].name = row[1].value.text

\* the sales of a customer type at a trade show
SalesAt(t, customer_type) ==
    { i \in 1..Len(sales) : sales[i].tradeshow = t /\ sales[i].customer_type = customer_type }

RECURSIVE SumOver(_, _)
SumOver(S, amount) ==
    IF S = {} THEN 0
    ELSE LET i == CHOOSE x \in S : TRUE
         IN  amount[i] + SumOver(S \ { i }, amount)

SalesCall ==
    /\ pc = "q_returned"
    /\ query_call[1].query = "query_tradeshows_sales_by_customer_type"

\* C21: in every record of the sales-by-customer-type query, total_revenue and
\* total_units are the sums over the sales of the customer type at the
\* record's trade show, each sale counted once whatever the number of products
\* it includes, and the records come by descending total_revenue.
C21_EachSaleCountedOnce ==
    SalesCall =>
        LET rows == query_call[1].rows
            customer_type == query_call[1].customer_type
        IN  /\ \A k \in 1..Len(rows) :
                  LET at == SalesAt(ShowOfRecord(rows[k]), customer_type)
                  IN  /\ Tenths(rows[k][4].value)
                            = SumOver(at, [ i \in at |-> sales[i].total_revenue ])
                      /\ rows[k][5].value
                            = IntValue(SumOver(at, [ i \in at |-> sales[i].units ]))
            /\ \A k \in 1..(Len(rows) - 1) :
                  Tenths(rows[k][4].value) >= Tenths(rows[k + 1][4].value)

EventsCall ==
    /\ pc = "q_returned"
    /\ query_call[1].query = "query_events_with_products_sold_at_tradeshows"

\* the trade shows whose location contains the argument, whatever the case:
\* 'Paris Nord Villepinte' contains 'Paris', 'Lyon Eurexpo' contains 'lyon'
AdmittedShows(location) ==
    IF location = << LocationParis >> THEN { 1 }
    ELSE IF location = << LocationLyon >> THEN { 2 }
    ELSE { 1, 2 }

\* the events at which a product is deployed that a sale at one of the shows
\* includes
EventsSoldAt(shows) ==
    IF \E i \in 1..Len(sales) : sales[i].tradeshow \in shows /\ 2 \in sales[i].products
    THEN { deployments[i].event : i \in 1..Len(deployments) }
    ELSE {}

\* the events named in returned records
EventsOfRows(rows) ==
    { e \in 1..Len(GraphEvents) :
        \E k \in 1..Len(rows) : rows[k][1].value = StrValue(GraphEvents[e].name) }

\* C22: the events query returns exactly the events at which a product is
\* deployed that was also sold at a trade show whose location contains the
\* given location, compared without regard to case, one record per event;
\* without a location no trade show is excluded, and the result with a
\* location is a part of the result without one.
C22_EventsSoldAtLocation ==
    EventsCall =>
        LET rows == query_call[1].rows
            location == query_call[1].location
        IN  /\ EventsOfRows(rows) = EventsSoldAt(AdmittedShows(location))
            /\ Len(rows) = Cardinality(EventsOfRows(rows))
            /\ location = <<>> => EventsOfRows(rows) = EventsSoldAt({ 1, 2 })
            /\ EventsOfRows(rows) \subseteq
                   EventsOfRows(query_events_with_products_sold_at_tradeshows(
                                    deployments, sales, <<>>))

C22_Witness ==
    /\ EventsCall
    /\ query_call[1].location = << LocationLyon >>
    /\ Len(query_call[1].rows) = 2
    /\ \E i \in 1..Len(sales) : sales[i].tradeshow = 1 /\ 2 \in sales[i].products

----------------------------------------------------------------------------
(* the course of one request *)

\* C23: within one request nothing is tried twice: the retriever and the
\* generator are invoked at most once, no graph query is executed twice with
\* the same arguments, and a call that failed is the last call of the request
\* (the failed call is not repeated and no other collaborator is invoked).
C23_NoRetry ==
    /\ Len(vector_calls) <= 1
    /\ Len(gen_calls) <= 1
    /\ \A i \in 1..Len(graph_calls) : \A j \in (i + 1)..Len(graph_calls) :
          graph_calls[i].query # graph_calls[j].query \/ graph_calls[i].args # graph_calls[j].args
    /\ \A i \in 1..Len(graph_calls) :
          graph_calls[i].raise =>
              (i = Len(graph_calls) /\ pc = "raised" /\ vector_calls = <<>> /\ gen_calls = <<>>)
    /\ raised = "vector" => (pc = "raised" /\ Len(vector_calls) = 1 /\ gen_calls = <<>>)
    /\ raised = "generator" => (pc = "raised" /\ Len(gen_calls) = 1 /\ gen_calls[1].raise)
    /\ pc = "raised" => raised \in { "graph", "vector", "generator" }

C23_Witness ==
    /\ pc = "raised"
    /\ raised = "vector"
    /\ path = "hybrid"
    /\ Len(graph_calls) = 2
    /\ Len(vector_calls) = 1

\* C24: each time the events rule runs its query, the location is 'Paris'
\* when the lower-cased question contains 'pollutec' or 'paris' and absent
\* otherwise.  For the first example question the rule is the only one that
\* runs; when its query returns rows the extractor returns exactly one item,
\* of query_type events_with_products_sold_at_tradeshows, holding those rows.
C24_EventsLocationFromQuestion ==
    /\ \A i \in 1..Len(graph_calls) :
          graph_calls[i].query = "query_events_with_products_sold_at_tradeshows" =>
              graph_calls[i].args =
                  (IF Contains(Lower(question), Pollutec) \/ Contains(Lower(question), Paris)
                   THEN << LocationParis >> ELSE <<>>)
    /\ (pc = "h_retrieve" /\ question = MULTI_HOP_QUESTIONS[1]) =>
          /\ Len(graph_calls) = 1
          /\ graph_calls[1].query = "query_events_with_products_sold_at_tradeshows"
          /\ graph_calls[1].args = << LocationParis >>
          /\ Len(graph_calls[1].rows) > 0 =>
                graph_context_raw[1] =
                    << [query_type |-> EventsType, results |-> graph_calls[1].rows] >>

C24_Witness ==
    /\ pc = "h_retrieve"
    /\ question = MULTI_HOP_QUESTIONS[1]
    /\ Len(graph_calls[1].rows) > 0
    /\ Len(graph_context_raw[1]) = 1

\* the events rule ran without a location
C24_WitnessNoLocation ==
    /\ pc = "h_retrieve"
    /\ Len(graph_calls) > 0
    /\ graph_calls[1].query = "query_events_with_products_sold_at_tradeshows"
    /\ graph_calls[1].args = <<>>

\* one step of a request, seen from the collaborators' call logs
StepInOrder ==
    /\ (graph_calls' # graph_calls /\ pc' # "idle") =>
          /\ strategy = << "multi_hop" >> /\ path = "hybrid"
          /\ graph_context_raw = <<>>
          /\ vector_calls = <<>> /\ gen_calls = <<>>
    /\ (vector_calls' # vector_calls /\ pc' # "idle") =>
          /\ strategy # <<>>
          /\ path = "hybrid" => (graph_context_raw # <<>> /\ pc = "h_retrieve")
          /\ path = "simple" => graph_calls = <<>>
          /\ vector_calls = <<>> /\ gen_calls = <<>>
    /\ (gen_calls' # gen_calls /\ pc' # "idle") =>
          /\ strategy # <<>>
          /\ path = "hybrid" => graph_context_raw # <<>>
          /\ Len(vector_calls) = 1 /\ vector_docs # <<>>
          /\ gen_calls = <<>>
    /\ gen_calls # <<>> =>
          \/ pc' = "idle"
          \/ UNCHANGED << graph_calls, vector_calls, gen_calls >>

\* C25: the steps of a request come one after another: the strategy is
\* determined before any collaborator is invoked, graph queries run only on
\* the hybrid path and before the retriever, the retriever is invoked once
\* the extraction has returned, the generator only after the retriever (and,
\* on the hybrid path, the extractor) has returned, and once the generator
\* was invoked no collaborator is invoked again in the request.
C25_StepsInOrder == [][StepInOrder]_vars

C25_Witness ==
    /\ pc = "done"
    /\ path = "hybrid"
    /\ Len(graph_calls) = 2
    /\ Len(vector_calls) = 1
    /\ Len(gen_calls) = 1

\* C26: explain_routing and query() agree.  When query() runs without a
\* forced strategy on the question explain_routing was just asked about, it
\* runs the hybrid path if and only if the reported strategy is multi_hop;
\* the same holds for any call of query() without a forced strategy and what
\* explain_routing returns for its question.
C26_ExplanationNamesPath ==
    /\ (routing # <<>> /\ pc # "explained") =>
          /\ force_strategy = <<>>
          /\ routing[1].strategy = "multi_hop" <=> path = "hybrid"
          /\ routing[1].strategy # "multi_hop" => (path = "simple" /\ graph_calls = <<>>)
          /\ path = "hybrid" => pc \in HybridPcs \cup { "done", "raised" }
    /\ (pc \in { "rule_events", "s_retrieve" } /\ ~Truthy(force_strategy)) =>
          (explain_routing(question).strategy = "multi_hop" <=> path = "hybrid")
    /\ pc \in HybridPcs => path = "hybrid"
    /\ pc \in SimplePcs => path = "simple"

C26_Witness ==
    /\ routing # <<>>
    /\ routing[1].strategy = "multi_hop"
    /\ pc = "done"
    /\ path = "hybrid"
    /\ Len(graph_calls) > 0

C26_WitnessSimple ==
    /\ routing # <<>>
    /\ routing[1].strategy = "simple"
    /\ pc = "done"
    /\ path = "simple"
    /\ multi_hop_score(question) > 0

\* C27: the hybrid path runs only for the effective strategy 'multi_hop'.  A
\* forced value that is neither empty nor 'multi_hop' ('hybrid', 'Multi_Hop',
\* 'simple') runs the vector-only path: no graph query, no failure other than
\* a collaborator's, and a returned result labelled 'simple'.
C27_OnlyMultiHopRunsHybrid ==
    /\ path = "hybrid" => strategy = << "multi_hop" >>
    /\ (Truthy(force_strategy) /\ force_strategy[1] # "multi_hop") =>
          /\ strategy = force_strategy
          /\ path = "simple"
          /\ pc \in SimplePcs \cup { "done", "raised" }
          /\ graph_calls = <<>>
          /\ pc = "raised" => raised \in { "vector", "generator" }
          /\ pc = "done" => result[1].strategy = "simple"

C27_Witness ==
    /\ pc = "done"
    /\ force_strategy = << "hybrid" >>
    /\ classify_question(question) = "multi_hop"
    /\ path = "simple"
    /\ result[1].strategy = "simple"

----------------------------------------------------------------------------
(* the extractor's rules *)

\* the query types in the order of the rules; the two battery types belong to
\* the one battery rule
TypeOrder ==
    << EventsType,
       Co2Type(product_ids[1]), Co2Type(product_ids[2]), Co2Type(product_ids[3]),
       Co2Type(product_ids[4]), Co2Type(product_ids[5]),
       CollectivitesType, RdType,
       BatteryItemType(BatteryLiFePO4), BatteryItemType(BatteryTesla),
       TopType >>

TypeRank(query_type) == CHOOSE k \in 1..Len(TypeOrder) : TypeOrder[k] = query_type

InRuleOrder(ctx) ==
    /\ \A i \in 1..Len(ctx) : \E k \in 1..Len(TypeOrder) : TypeOrder[k] = ctx[i].query_type
    /\ \A i, j \in 1..Len(ctx) :
          i < j => TypeRank(ctx[i].query_type) < TypeRank(ctx[j].query_type)
    /\ ~ \E i, j \in 1..Len(ctx) :
            /\ ctx[i].query_type = BatteryItemType(BatteryLiFePO4)
            /\ ctx[j].query_type = BatteryItemType(BatteryTesla)

\* C28: the items the extractor collects, and returns, are in the order of
\* the rules (events, CO2 by candidate product id, collectivites, R&D,
\* battery, top revenue) wherever the keywords stand in the question, so no
\* query_type occurs twice.
C28_ItemsInRuleOrder ==
    /\ InRuleOrder(context)
    /\ graph_context_raw # <<>> => InRuleOrder(graph_context_raw[1])

\* 'PG-M01 et PG-U01': the items come in the order PG-U01, PG-M01
C28_Witness ==
    /\ pc = "h_retrieve"
    /\ Len(graph_context_raw[1]) = 2
    /\ graph_context_raw[1][1].query_type = TypeOrder[2]
    /\ graph_context_raw[1][2].query_type = TypeOrder[3]

\* C29: whatever the question, every query the extractor executes is one of
\* six of the eight queries of the library; query_product_sales_across_tradeshows
\* and query_events_powered_by_product_type are never executed.
C29_TwoQueriesNeverExecuted ==
    /\ Cardinality(LibraryQueries) = 8
    /\ Cardinality(LibraryQueries \ UnusedQueries) = 6
    /\ \A i \in 1..Len(graph_calls) :
          /\ graph_calls[i].query \in LibraryQueries
          /\ graph_calls[i].query \notin UnusedQueries
    /\ ~Executed("query_product_sales_across_tradeshows")
    /\ ~Executed("query_events_powered_by_product_type")

\* 'Dans quels salons le PG-U01 a-t-il été vendu?' runs the top-revenue query
C29_Witness ==
    /\ pc = "h_retrieve"
    /\ question = MULTI_HOP_QUESTIONS[6]
    /\ Len(graph_calls) = 1
    /\ graph_calls[1].query = "query_top_revenue_tradeshows"

\* the executions of the CO2 query for the i-th candidate product id
Co2Calls(i) ==
    { k \in 1..Len(graph_calls) :
        /\ graph_calls[k].query = "query_total_co2_saved_by_product"
        /\ graph_calls[k].args = << product_ids[i] >> }

\* the items of the returned context for the i-th candidate product id
Co2Items(i) ==
    { k \in 1..Len(graph_context_raw[1]) :
        graph_context_raw[1][k].query_type = Co2Type(product_ids[i]) }

\* C30: when the extractor returns for a question with a CO2 keyword, it has
\* executed the CO2 query once for each candidate product id that occurs in
\* the question (compared in lower case) and for no other argument; the
\* context holds one item for each of these products whose query returned
\* rows and none for the others.  Without a candidate id in the question no
\* CO2 query is executed; without a CO2 keyword neither.
C30_Co2QueryPerMentionedProduct ==
    pc = "h_retrieve" =>
        LET question_lower == Lower(question)
            keyword == AnyIn(co2_words, question_lower)
            mentioned == { i \in 1..Len(product_ids) :
                             Contains(question_lower, Lower(product_ids[i])) }
        IN  /\ \A i \in 1..Len(product_ids) :
                  /\ Cardinality(Co2Calls(i)) = IF keyword /\ i \in mentioned THEN 1 ELSE 0
                  /\ Cardinality(Co2Items(i)) =
                        IF \E k \in Co2Calls(i) : Len(graph_calls[k].rows) > 0 THEN 1 ELSE 0
                  /\ \A k \in Co2Items(i) : \E c \in Co2Calls(i) :
                        graph_context_raw[1][k].results = graph_calls[c].rows
            /\ Cardinality({ k \in 1..Len(graph_calls) :
                               graph_calls[k].query = "query_total_co2_saved_by_product" })
                   = IF keyword THEN Cardinality(mentioned) ELSE 0
            /\ (keyword /\ mentioned = {}) =>
                   ~Executed("query_total_co2_saved_by_product")

\* two products mentioned, the first query returned nothing
C30_Witness ==
    /\ pc = "h_retrieve"
    /\ Len(graph_calls) = 2
    /\ Co2Calls(1) = { 1 }
    /\ Co2Calls(2) = { 2 }
    /\ graph_calls[1].rows = <<>>
    /\ Co2Items(1) = {}
    /\ Co2Items(2) = { 1 }

\* a CO2 keyword and no candidate product id
C30_WitnessNoProduct ==
    /\ pc = "h_retrieve"
    /\ AnyIn(co2_words, Lower(question))
    /\ graph_calls = <<>>

====
